---- MODULE Spec2Model ----
(***************************************************************************)
(* Model of the imageparse CD image library: the CHD backend (chd.rs) with *)
(* its hunk reader thread (chd/chd_thread.rs) and the CUE backend (cue.rs).*)
(*                                                                         *)
(* Option<T> is modelled as a sequence: None is << >>, Some(x) is <<x>>.   *)
(* The decompressed bytes of a hunk are a function of the hunk number, so  *)
(* a hunk buffer is modelled by the number of the hunk whose bytes it      *)
(* holds, and a sector's bytes by the (hunk, sector in hunk) they come     *)
(* from together with whether adjacent bytes were swapped.                 *)
(***************************************************************************)
EXTENDS Integers, Sequences, FiniteSets, TLC

VARIABLES
    backend,                \* which Image implementation was opened
    cue,                    \* the opened cue sheet: its FILE, TRACK and INDEX lines
    bin_files,              \* Cuesheet.bin_files
    location,               \* Cuesheet.location
    disc,                   \* the opened CHD file: header fields and track metadata
    tracks,                 \* ChdImage.tracks
    current_lba,            \* ChdImage.current_lba
    current_track,          \* ChdImage.current_track (counts from 0)
    current_hunk_no,        \* ChdImage.current_hunk_no
    hunk,                   \* ChdImage.hunk: number of the hunk whose bytes it holds
    hunk_read_pending,      \* ChdHunkReader.hunk_read_pending
    mpc,                    \* where the main thread is inside a public call
    mctx,                   \* locals of the public call in progress
    ret,                    \* what the last finished public call returned
    cmd_chan,               \* sync_channel(NUM_CMD_SLOTS) of Command
    completion_chan,        \* sync_channel(1) of Result<u32, chd_rs::Error>
    hunk_cache,             \* LruCache keys, most recently used first
    wpc,                    \* where the worker thread is
    wcmd,                   \* the command the worker is handling
    wi,                     \* loop variable i of the readahead / prefetch loop
    wres,                   \* result of read_hunk_to_cache for the ReadHunk in hand
    cmd_while_prefetching,  \* ChdThread.cmd_while_prefetching
    last_requested_hunk,    \* ChdThread.last_requested_hunk
    outstanding,            \* history: ReadHunk commands posted, completion not yet received
    advised,                \* history: hunks for which a PrefetchHunk was posted
    burst_inserts,          \* history: cache insertions of the readahead / prefetch loop so far
    decompressed,           \* history: the ReadHunk in hand called the codec for its hunk
    codec_errors,           \* history: number of codec failures so far
    calls                   \* history: number of public calls made so far

chdvars == <<disc, tracks, current_lba, current_track, current_hunk_no, hunk,
             hunk_read_pending, mpc, mctx, ret, cmd_chan, completion_chan,
             hunk_cache, wpc, wcmd, wi, wres, cmd_while_prefetching,
             last_requested_hunk, outstanding, advised, burst_inserts,
             decompressed, codec_errors, calls>>

cuevars == <<cue, bin_files, location>>

vars == <<backend, chdvars, cuevars>>

None == << >>
Some(x) == <<x>>

----------------------------------------------------------------------------
(* Program constants                                                       *)

FIRST_TRACK_PREGAP == 150
NUM_HUNKS_READAHEAD == 8
NUM_READAHEAD_HUNKS_LOW_WATER == 2
NUM_CMD_SLOTS == 2
COMPLETION_SLOTS == 1
PAD_ALIGN == 4
MSF_MAX == 450000

(* Model bounds.  The code's CACHE_CAPACITY is 100; the model keeps the    *)
(* cache smaller than the image so that evictions happen.                  *)
CACHE_CAPACITY == 2
MaxCodecErrors == 1
MaxCalls == 4
MaxPastEnd == 2
MaxCallsBeforeDrop == 3
MaxQueryCalls == 2
MaxCueLines == 5
MaxTracks == 3
MaxFrames == 5
MaxPregapStart == 2

----------------------------------------------------------------------------
(* MSF <-> LBA (crate::index::MsfIndex::from_lba / to_lba)                  *)

MsfFromLba(lba) ==
    IF lba >= MSF_MAX THEN None
    ELSE Some(<<lba \div (60 * 75), (lba \div 75) % 60, lba % 75>>)

MsfToLba(msf) == (msf[1] * 60 + msf[2]) * 75 + msf[3]

----------------------------------------------------------------------------
(* CHD files the model opens: header fields and CD track metadata.         *)

Discs ==
    { [ hunk_count |-> 3, sectors_per_hunk |-> 2,
        chd_tracks |-> << [frames |-> 3, track_type |-> "Mode2", pregap |-> Some(0)],
                          [frames |-> 2, track_type |-> "Audio", pregap |-> Some(1)] >> ] }

(* Mutant of BuildTracks: a track's own padding is part of its             *)
(* padding_offset                                                          *)
RECURSIVE BuildTracksPadsItself(_, _, _)
BuildTracksPadsItself(chd_tracks, lba, total_padding) ==
    IF chd_tracks = << >> THEN << >>
    ELSE LET t == Head(chd_tracks)
             align_remainder == t.frames % PAD_ALIGN
             pad == IF align_remainder > 0 THEN PAD_ALIGN - align_remainder ELSE 0
         IN  << [ start_lba |-> lba, track_type |-> t.track_type,
                  padding_offset |-> total_padding + pad,
                  frames |-> t.frames, pregap |-> t.pregap ] >>
             \o BuildTracksPadsItself(Tail(chd_tracks), lba + t.frames, total_padding + pad)

(* ChdImage::from_chd, the loop that builds `tracks` *)
RECURSIVE BuildTracks(_, _, _)
BuildTracks(chd_tracks, lba, total_padding) ==
    IF chd_tracks = << >> THEN << >>
    ELSE LET t == Head(chd_tracks)
             align_remainder == t.frames % PAD_ALIGN
             pad == IF align_remainder > 0 THEN PAD_ALIGN - align_remainder ELSE 0
         IN  << [ start_lba |-> lba, track_type |-> t.track_type,
                  padding_offset |-> total_padding,
                  frames |-> t.frames, pregap |-> t.pregap ] >>
             \o BuildTracks(Tail(chd_tracks), lba + t.frames, total_padding + pad)

num_hunks == disc.hunk_count
sectors_per_hunk == disc.sectors_per_hunk

----------------------------------------------------------------------------
(* LruCache<u32, Vec<u8>> (keys only, most recently used first)            *)

CacheContains(cache, k) == \E i \in 1..Len(cache) : cache[i] = k

Without(cache, k) == SelectSeq(cache, LAMBDA x : x # k)

(* Mutant of CacheGet: a hit leaves the recency order alone *)
CacheGetNoTouch(cache, k) == cache

(* LruCache::get: a hit makes the key the most recently used *)
CacheGet(cache, k) == IF CacheContains(cache, k) THEN <<k>> \o Without(cache, k) ELSE cache

(* LruCache::put: insert as most recently used, evicting the least         *)
(* recently used key when the cache is full                                *)
CachePut(cache, k) ==
    IF CacheContains(cache, k) THEN <<k>> \o Without(cache, k)
    ELSE IF Len(cache) >= CACHE_CAPACITY
         THEN <<k>> \o SubSeq(cache, 1, CACHE_CAPACITY - 1)
         ELSE <<k>> \o cache

----------------------------------------------------------------------------
(* ChdImage: pure helpers                                                  *)

InTrack(t, lba) == lba >= t.start_lba /\ lba < t.start_lba + t.frames

(* ChdImage::update_current_track: the new current_track, or -1 for        *)
(* Err(OutOfRange)                                                         *)
UpdateCurrentTrack(cur, lba) ==
    IF InTrack(tracks[cur + 1], lba) THEN cur
    ELSE IF \E i \in 1..Len(tracks) : InTrack(tracks[i], lba)
         THEN (CHOOSE i \in 1..Len(tracks) :
                  /\ InTrack(tracks[i], lba)
                  /\ \A j \in 1..(i - 1) : ~InTrack(tracks[j], lba)) - 1
         ELSE -1

(* Mutant of HunkNoForLba: the track's padding_offset is left out *)
HunkNoForLbaNoPadding(trk, lba) ==
    IF lba < FIRST_TRACK_PREGAP THEN -1
    ELSE LET hunk_no == (lba - FIRST_TRACK_PREGAP) \div sectors_per_hunk
         IN  IF hunk_no > num_hunks THEN -1 ELSE hunk_no

(* ChdImage::hunk_no_for_lba with current_track = trk: the hunk number, or *)
(* -1 for Err(OutOfRange)                                                  *)
HunkNoForLba(trk, lba) ==
    IF lba < FIRST_TRACK_PREGAP THEN -1
    ELSE LET file_lba == lba + tracks[trk + 1].padding_offset - FIRST_TRACK_PREGAP
             hunk_no == file_lba \div sectors_per_hunk
         IN  IF hunk_no > num_hunks THEN -1 ELSE hunk_no

(* Mutant of ChdTrackStart: a track number past the last track is taken   *)
(* as the last track                                                       *)
ChdTrackStartClamps(track) ==
    IF track = 0 THEN FIRST_TRACK_PREGAP + num_hunks * sectors_per_hunk
    ELSE LET t == tracks[IF track <= Len(tracks) THEN track ELSE Len(tracks)]
         IN  t.start_lba + (IF t.pregap = None THEN 150 ELSE t.pregap[1])

(* ChdImage::track_start as an LBA: -1 for Err(OutOfRange) *)
ChdTrackStart(track) ==
    IF track = 0
    THEN LET num_sectors == FIRST_TRACK_PREGAP + num_hunks * sectors_per_hunk
         IN  IF MsfFromLba(num_sectors) = None THEN -1 ELSE num_sectors
    ELSE IF track <= Len(tracks)
    THEN LET t == tracks[track]
             start_lba_index01 ==
                 t.start_lba + (IF t.pregap = None THEN 150 ELSE t.pregap[1])
         IN  IF MsfFromLba(start_lba_index01) = None THEN -1 ELSE start_lba_index01
    ELSE -1

(* The sector copied out of hunk buffer `buf` by copy_current_sector *)
SectorOf(buf, sector_in_hunk, swapped) ==
    [hunk |-> buf, sector |-> sector_in_hunk, swapped |-> swapped]

ZeroSector == [hunk |-> -1, sector |-> 0, swapped |-> FALSE]

ReadHunkCmd(h) == [kind |-> "ReadHunk", hunk_no |-> h]
PrefetchHunkCmd(h) == [kind |-> "PrefetchHunk", hunk_no |-> h]
NoCmd == [kind |-> "none", hunk_no |-> 0]

(* Locals of a public call: `prev` remembers how the previous call ended *)
NoCtx == [op |-> "none", hunk_no |-> 0, old_track |-> 0, sector_in_hunk |-> 0,
          prev |-> "none"]
(* What a public call returned.  `arg` is the LBA a set_location was given, *)
(* the track a set_location_to_track or a track_start was given (carried   *)
(* in old_track meanwhile) and, for advance_position, what current_track() *)
(* was before the call.                                                    *)
NoRet == [op |-> "none", arg |-> None, res |-> "none", val |-> None]

mainlocal == <<current_lba, current_track, current_hunk_no, hunk, hunk_read_pending,
               mpc, mctx, ret>>
workervars == <<wpc, wcmd, wi, wres, cmd_while_prefetching, last_requested_hunk,
                decompressed, codec_errors, burst_inserts>>
static == <<backend, disc, tracks, cuevars>>

----------------------------------------------------------------------------
(* ChdImage: the main thread.  A public call runs from mpc = "idle" until  *)
(* it returns; it takes one step per access to a channel or to the cache.  *)

Returns(op, arg, res, val) ==
    /\ mpc' = "idle"
    /\ mctx' = NoCtx
    /\ ret' = [op |-> op, arg |-> arg, res |-> res, val |-> val]

Panics(why) ==
    /\ mpc' = "panicked"
    /\ mctx' = NoCtx
    /\ ret' = [op |-> "copy_current_sector", arg |-> None, res |-> "panic",
               val |-> Some(why)]

(* copy_current_sector from the assert_eq! on hunk_no_for_lba onwards      *)
(* (chd.rs 482-513), with the values the fields have at that point         *)
CopyContinue(cur_hno, trk, lba, pend, buf, sector) ==
    LET expect == HunkNoForLba(trk, lba)
    IN  IF expect = -1 THEN Returns("copy_current_sector", None, "OutOfRange", None)
        ELSE IF cur_hno # Some(expect) THEN Panics("assert_eq hunk_no_for_lba")
        ELSE IF pend
        THEN /\ mpc' = "copy_recv"
             /\ mctx' = [op |-> "copy_current_sector", hunk_no |-> expect,
                         old_track |-> 0, sector_in_hunk |-> sector,
                         prev |-> IF mpc = "idle" THEN ret.res ELSE mctx.prev]
             /\ ret' = NoRet
        ELSE Returns("copy_current_sector", None, "Ok",
                     Some(SectorOf(buf, sector, tracks[trk + 1].track_type = "Audio")))

(* set_location_lba returns to the public call `op` that made it *)
SetLocationLbaDone(op, old_track, sector, ok, trk, hno, pend, lba) ==
    CASE op = "set_location" ->
            Returns(op, Some(lba), IF ok THEN "Ok" ELSE "OutOfRange", None)
      [] op = "set_location_to_track" ->
            Returns(op, Some(old_track), IF ok THEN "Ok" ELSE "OutOfRange", None)
      [] op = "advance_position" ->
            Returns(op, Some(old_track + 1), "Ok",
                    Some(IF ~ok THEN "EndOfDisc"
                         ELSE IF trk # old_track THEN "TrackChange" ELSE "None"))
      [] op = "copy_current_sector" ->
            IF ~ok THEN Returns(op, None, "OutOfRange", None)
            ELSE CopyContinue(hno, trk, lba, pend, hunk, sector)

(* ChdImage::set_location_lba up to its call of read_hunk *)
SetLocationLba(op, lba, old_track, sector) ==
    LET saved == current_hunk_no
        trk == UpdateCurrentTrack(current_track, lba)
        hunk_no == HunkNoForLba(trk, lba)
    IN  /\ current_lba' = lba
        /\ IF lba < FIRST_TRACK_PREGAP
           THEN /\ current_track' = 0
                /\ current_hunk_no' = None
                /\ SetLocationLbaDone(op, old_track, sector, TRUE, 0, None,
                                      hunk_read_pending, lba)
           ELSE IF trk = -1
           THEN /\ current_track' = current_track
                /\ current_hunk_no' = None
                /\ SetLocationLbaDone(op, old_track, sector, FALSE, current_track, None,
                                      hunk_read_pending, lba)
           ELSE IF hunk_no = -1
           THEN /\ current_track' = trk
                /\ current_hunk_no' = None
                /\ SetLocationLbaDone(op, old_track, sector, FALSE, trk, None,
                                      hunk_read_pending, lba)
           ELSE IF Some(hunk_no) = saved
           THEN /\ current_track' = trk
                /\ current_hunk_no' = Some(hunk_no)
                /\ SetLocationLbaDone(op, old_track, sector, TRUE, trk, Some(hunk_no),
                                      hunk_read_pending, lba)
           ELSE /\ current_track' = trk
                /\ current_hunk_no' = None
                /\ mpc' = IF hunk_read_pending THEN "read_hunk_drain"
                                               ELSE "read_hunk_lookup"
                /\ mctx' = [op |-> op, hunk_no |-> hunk_no, old_track |-> old_track,
                            sector_in_hunk |-> sector, prev |-> ret.res]
                /\ ret' = NoRet
        /\ UNCHANGED <<hunk, hunk_read_pending>>

(* The LBAs the model passes to set_location and advise_prefetch: the last *)
(* sector of the first track's pregap, every sector of the image file and  *)
(* the first LBA past it                                                   *)
TargetLbas ==
    {FIRST_TRACK_PREGAP - 1} \cup
    FIRST_TRACK_PREGAP .. (FIRST_TRACK_PREGAP + num_hunks * sectors_per_hunk)

TargetMsfs == {MsfFromLba(l)[1] : l \in TargetLbas}

SetLocation(target) ==
    /\ backend = "chd" /\ mpc = "idle"
    /\ calls < MaxCalls
    /\ calls' = calls + 1
    /\ SetLocationLba("set_location", MsfToLba(target), 0, 0)
    /\ UNCHANGED <<static, cmd_chan, completion_chan, hunk_cache, workervars, outstanding, advised>>

AdvancePosition ==
    /\ backend = "chd" /\ mpc = "idle"
    /\ calls < MaxCalls
    /\ calls' = calls + 1
    /\ current_lba < FIRST_TRACK_PREGAP + num_hunks * sectors_per_hunk
    /\ SetLocationLba("advance_position", current_lba + 1, current_track, 0)
    /\ UNCHANGED <<static, cmd_chan, completion_chan, hunk_cache, workervars, outstanding, advised>>

SetLocationToTrack(track) ==
    /\ backend = "chd" /\ mpc = "idle"
    /\ calls < MaxCalls
    /\ calls' = calls + 1
    /\ LET track_start == ChdTrackStart(track)
       IN  IF track_start = -1
           THEN /\ Returns("set_location_to_track", Some(track), "OutOfRange", None)
                /\ UNCHANGED <<current_lba, current_track, current_hunk_no, hunk,
                               hunk_read_pending>>
           ELSE SetLocationLba("set_location_to_track",
                               MsfToLba(MsfFromLba(track_start)[1]), track, 0)
    /\ UNCHANGED <<static, cmd_chan, completion_chan, hunk_cache, workervars, outstanding, advised>>

(* Mutant of TrySendPrefetch: the hint replaces the newest queued command  *)
(* when the channel is full                                                *)
TrySendPrefetchReplaces(chan, h) ==
    IF Len(chan) < NUM_CMD_SLOTS THEN Append(chan, PrefetchHunkCmd(h))
    ELSE Append(SubSeq(chan, 1, Len(chan) - 1), PrefetchHunkCmd(h))

(* ChdHunkReader::send_prefetch_hunk_command: try_send *)
TrySendPrefetch(chan, h) ==
    IF Len(chan) < NUM_CMD_SLOTS THEN Append(chan, PrefetchHunkCmd(h)) ELSE chan

(* History: the hunks a PrefetchHunk was posted for, after a try_send of h *)
Posted(chan, h) ==
    IF Len(chan) < NUM_CMD_SLOTS THEN advised \cup {h} ELSE advised

AdvisePrefetch(loc) ==
    /\ backend = "chd" /\ mpc = "idle"
    /\ calls < MaxCalls
    /\ calls' = calls + 1
    /\ LET hunk_no == HunkNoForLba(current_track, MsfToLba(loc))
       IN  IF hunk_no # -1
           THEN /\ cmd_chan' = TrySendPrefetch(cmd_chan, hunk_no)
                /\ advised' = Posted(cmd_chan, hunk_no)
           ELSE UNCHANGED <<cmd_chan, advised>>
    /\ Returns("advise_prefetch", None, "Ok", None)
    /\ UNCHANGED <<static, current_lba, current_track, current_hunk_no, hunk,
                   hunk_read_pending, completion_chan, hunk_cache, workervars, outstanding>>

(* copy_current_sector with a 2352 byte buffer, up to its first wait *)
CopyCurrentSector ==
    /\ backend = "chd" /\ mpc = "idle"
    /\ calls < MaxCalls
    /\ calls' = calls + 1
    /\ IF current_lba < FIRST_TRACK_PREGAP
       THEN /\ Returns("copy_current_sector", None, "Ok", Some(ZeroSector))
            /\ UNCHANGED <<current_lba, current_track, current_hunk_no, hunk,
                           hunk_read_pending>>
       ELSE LET current_file_lba ==
                    current_lba + tracks[current_track + 1].padding_offset
                                - FIRST_TRACK_PREGAP
                sector_in_hunk == current_file_lba % sectors_per_hunk
            IN  IF current_hunk_no = None
                THEN SetLocationLba("copy_current_sector", current_lba, 0, sector_in_hunk)
                ELSE /\ CopyContinue(current_hunk_no, current_track, current_lba,
                                     hunk_read_pending, hunk, sector_in_hunk)
                     /\ UNCHANGED <<current_lba, current_track, current_hunk_no, hunk,
                                    hunk_read_pending>>
    /\ UNCHANGED <<static, cmd_chan, completion_chan, hunk_cache, workervars, outstanding, advised>>

(* Mutant of ReadHunkDrain: read_hunk does not clear the pending completion *)
ReadHunkNoDrain ==
    /\ backend = "chd" /\ mpc = "read_hunk_drain"
    /\ mpc' = "read_hunk_lookup"
    /\ UNCHANGED <<static, calls, current_lba, current_track, current_hunk_no, hunk, mctx, ret,
                   cmd_chan, hunk_cache, workervars, advised, completion_chan,
                   hunk_read_pending, outstanding>>

(* ChdImage::read_hunk: "Clear completion" (recv_completion, result dropped) *)
ReadHunkDrain ==
    /\ backend = "chd" /\ mpc = "read_hunk_drain"
    /\ completion_chan # << >>
    /\ completion_chan' = Tail(completion_chan)
    /\ hunk_read_pending' = FALSE
    /\ outstanding' = Tail(outstanding)
    /\ mpc' = "read_hunk_lookup"
    /\ UNCHANGED <<static, calls, current_lba, current_track, current_hunk_no, hunk, mctx, ret,
                   cmd_chan, hunk_cache, workervars, advised>>

(* Mutant of ReadHunkLookup: a cache hit does not replace the buffer *)
ReadHunkLookupKeepsBuffer ==
    /\ backend = "chd" /\ mpc = "read_hunk_lookup"
    /\ IF CacheContains(hunk_cache, mctx.hunk_no)
       THEN /\ hunk_cache' = CacheGet(hunk_cache, mctx.hunk_no)
            /\ mpc' = "read_hunk_prefetch"
       ELSE /\ mpc' = "read_hunk_send"
            /\ UNCHANGED hunk_cache
    /\ UNCHANGED <<static, calls, current_lba, current_track, current_hunk_no, hunk,
                   hunk_read_pending, mctx, ret, cmd_chan, completion_chan, workervars,
                   outstanding, advised>>

(* ChdImage::read_hunk: get_hunk_from_cache *)
ReadHunkLookup ==
    /\ backend = "chd" /\ mpc = "read_hunk_lookup"
    /\ IF CacheContains(hunk_cache, mctx.hunk_no)
       THEN /\ hunk_cache' = CacheGet(hunk_cache, mctx.hunk_no)
            /\ hunk' = mctx.hunk_no
            /\ mpc' = "read_hunk_prefetch"
       ELSE /\ mpc' = "read_hunk_send"
            /\ UNCHANGED <<hunk_cache, hunk>>
    /\ UNCHANGED <<static, calls, current_lba, current_track, current_hunk_no, hunk_read_pending,
                   mctx, ret, cmd_chan, completion_chan, workervars, outstanding, advised>>

(* ChdImage::read_hunk, cache hit: send_prefetch_hunk_command, then the    *)
(* rest of set_location_lba                                                *)
ReadHunkPrefetch ==
    /\ backend = "chd" /\ mpc = "read_hunk_prefetch"
    /\ cmd_chan' = TrySendPrefetch(cmd_chan, mctx.hunk_no)
    /\ advised' = Posted(cmd_chan, mctx.hunk_no)
    /\ current_hunk_no' = Some(mctx.hunk_no)
    /\ SetLocationLbaDone(mctx.op, mctx.old_track, mctx.sector_in_hunk, TRUE,
                          current_track, Some(mctx.hunk_no), hunk_read_pending,
                          current_lba)
    /\ UNCHANGED <<static, calls, current_lba, current_track, hunk, hunk_read_pending,
                   completion_chan, hunk_cache, workervars, outstanding>>

(* ChdImage::read_hunk, cache miss: send_read_hunk_command (a blocking     *)
(* send), then the rest of set_location_lba                                *)
ReadHunkSend ==
    /\ backend = "chd" /\ mpc = "read_hunk_send"
    /\ Len(cmd_chan) < NUM_CMD_SLOTS
    /\ cmd_chan' = Append(cmd_chan, ReadHunkCmd(mctx.hunk_no))
    /\ hunk_read_pending' = TRUE
    /\ outstanding' = Append(outstanding, [hunk_no |-> mctx.hunk_no,
                                            advised |-> mctx.hunk_no \in advised])
    /\ current_hunk_no' = Some(mctx.hunk_no)
    /\ SetLocationLbaDone(mctx.op, mctx.old_track, mctx.sector_in_hunk, TRUE,
                          current_track, Some(mctx.hunk_no), TRUE, current_lba)
    /\ UNCHANGED <<static, calls, current_lba, current_track, hunk, completion_chan,
                   hunk_cache, workervars, advised>>

(* Mutant of CopyRecv: a failed completion leaves current_hunk_no set *)
CopyRecvKeepsHunkNo ==
    /\ backend = "chd" /\ mpc = "copy_recv"
    /\ completion_chan # << >>
    /\ LET completion == Head(completion_chan)
       IN  /\ completion_chan' = Tail(completion_chan)
           /\ hunk_read_pending' = FALSE
           /\ outstanding' = Tail(outstanding)
           /\ IF completion.ok
              THEN IF current_hunk_no # Some(completion.hunk_no)
                   THEN Panics("assert_eq completion")
                   ELSE /\ mpc' = "copy_get"
                        /\ mctx' = [mctx EXCEPT !.hunk_no = completion.hunk_no]
                        /\ ret' = NoRet
              ELSE Returns("copy_current_sector", None, "ChdError", None)
    /\ UNCHANGED <<static, calls, current_lba, current_track, current_hunk_no, hunk,
                   cmd_chan, hunk_cache, workervars, advised>>

(* copy_current_sector: recv_completion for the pending read *)
CopyRecv ==
    /\ backend = "chd" /\ mpc = "copy_recv"
    /\ completion_chan # << >>
    /\ LET completion == Head(completion_chan)
       IN  /\ completion_chan' = Tail(completion_chan)
           /\ hunk_read_pending' = FALSE
           /\ outstanding' = Tail(outstanding)
           /\ IF completion.ok
              THEN /\ IF current_hunk_no # Some(completion.hunk_no)
                      THEN Panics("assert_eq completion")
                      ELSE /\ mpc' = "copy_get"
                           /\ mctx' = [mctx EXCEPT !.hunk_no = completion.hunk_no]
                           /\ ret' = NoRet
                   /\ UNCHANGED current_hunk_no
              ELSE /\ current_hunk_no' = None
                   /\ Returns("copy_current_sector", None, "ChdError", None)
    /\ UNCHANGED <<static, calls, current_lba, current_track, hunk, cmd_chan, hunk_cache,
                   workervars, advised>>

(* copy_current_sector: get_hunk_from_cache after Ok(hunk_no), then the copy *)
CopyGet ==
    /\ backend = "chd" /\ mpc = "copy_get"
    /\ IF CacheContains(hunk_cache, mctx.hunk_no)
       THEN /\ hunk_cache' = CacheGet(hunk_cache, mctx.hunk_no)
            /\ hunk' = mctx.hunk_no
            /\ Returns("copy_current_sector", None, "Ok",
                       Some(SectorOf(mctx.hunk_no, mctx.sector_in_hunk,
                                     tracks[current_track + 1].track_type = "Audio")))
       ELSE /\ Panics("BUG: Hunk not in cache even though it should be")
            /\ UNCHANGED <<hunk_cache, hunk>>
    /\ UNCHANGED <<static, calls, current_lba, current_track, current_hunk_no, hunk_read_pending,
                   cmd_chan, completion_chan, workervars, outstanding, advised>>

----------------------------------------------------------------------------
(* ChdThread: the worker.  One step per access to a channel or to the      *)
(* cache; the decompression happens between WorkerCheck and WorkerPut.     *)

(* What no worker step changes *)
mainside == <<static, calls, mainlocal, outstanding, advised>>

(* handle_command returns Ok(()): the locals of the call are gone *)
CommandDone ==
    /\ wpc' = "idle"
    /\ wcmd' = NoCmd
    /\ wi' = 0
    /\ burst_inserts' = 0

OkResult(h) == [ok |-> TRUE, hunk_no |-> h]
NoResult == [ok |-> FALSE, hunk_no |-> 0]
ErrResult(h) == [ok |-> FALSE, hunk_no |-> h]

(* The worker starts handle_command(cmd) *)
StartCommand(cmd) ==
    /\ wcmd' = cmd
    /\ decompressed' = FALSE
    /\ wres' = NoResult
    /\ wi' = 0
    /\ burst_inserts' = 0
    /\ IF cmd.kind = "ReadHunk"
       THEN /\ last_requested_hunk' = cmd.hunk_no
            /\ wpc' = "check"
       ELSE /\ UNCHANGED last_requested_hunk
            /\ wpc' = "poll"

(* ChdThread::run: take the deferred command, else recv() *)
WorkerTakeDeferred ==
    /\ backend = "chd" /\ wpc = "idle"
    /\ cmd_while_prefetching # None
    /\ cmd_while_prefetching' = None
    /\ StartCommand(cmd_while_prefetching[1])
    /\ UNCHANGED <<mainside, cmd_chan, completion_chan, hunk_cache, codec_errors>>

WorkerRecv ==
    /\ backend = "chd" /\ wpc = "idle"
    /\ cmd_while_prefetching = None
    /\ cmd_chan # << >>
    /\ cmd_chan' = Tail(cmd_chan)
    /\ StartCommand(Head(cmd_chan))
    /\ UNCHANGED <<mainside, completion_chan, hunk_cache, codec_errors,
                   cmd_while_prefetching>>

(* The next iteration of the readahead / prefetch loop, or its end *)
NextIteration ==
    IF wi + 1 < NUM_HUNKS_READAHEAD
    THEN wi' = wi + 1 /\ wpc' = "poll" /\ wcmd' = wcmd /\ UNCHANGED burst_inserts
    ELSE CommandDone

(* Where the worker goes after read_hunk_to_cache(wcmd.hunk_no + wi) has   *)
(* returned `result`                                                       *)
AfterRead(result) ==
    IF wcmd.kind = "ReadHunk" /\ wi = 0
    THEN /\ wres' = result
         /\ wpc' = "send"
         /\ UNCHANGED <<wi, wcmd, burst_inserts>>
    ELSE /\ wres' = wres
         /\ NextIteration

(* Mutant of WorkerCheck: the hunk is decompressed whether cached or not *)
WorkerCheckAlwaysReads ==
    /\ backend = "chd" /\ wpc = "check"
    /\ LET hunk_no == wcmd.hunk_no + wi
       IN  IF hunk_no >= num_hunks
           THEN /\ AfterRead(ErrResult(hunk_no))
                /\ UNCHANGED hunk_cache
           ELSE /\ hunk_cache' = CacheGet(hunk_cache, last_requested_hunk)
                /\ wpc' = "put"
                /\ UNCHANGED <<wi, wres, wcmd, burst_inserts>>
    /\ UNCHANGED <<mainside, cmd_chan, completion_chan, cmd_while_prefetching,
                   last_requested_hunk, decompressed, codec_errors>>

(* read_hunk_to_cache: the range check and the first critical section      *)
WorkerCheck ==
    /\ backend = "chd" /\ wpc = "check"
    /\ LET hunk_no == wcmd.hunk_no + wi
       IN  IF hunk_no >= num_hunks
           THEN /\ AfterRead(ErrResult(hunk_no))
                /\ UNCHANGED hunk_cache
           ELSE /\ hunk_cache' = CacheGet(hunk_cache, last_requested_hunk)
                /\ IF CacheContains(hunk_cache, hunk_no)
                   THEN AfterRead(OkResult(hunk_no))
                   ELSE /\ wpc' = "put"
                        /\ UNCHANGED <<wi, wres, wcmd, burst_inserts>>
    /\ UNCHANGED <<mainside, cmd_chan, completion_chan, cmd_while_prefetching,
                   last_requested_hunk, decompressed, codec_errors>>

(* read_hunk_to_cache: the decompression succeeded; second critical section *)
WorkerPut ==
    /\ backend = "chd" /\ wpc = "put"
    /\ LET hunk_no == wcmd.hunk_no + wi
       IN  /\ hunk_cache' = CachePut(hunk_cache, hunk_no)
           /\ IF wcmd.kind = "ReadHunk" /\ wi = 0
              THEN /\ decompressed' = TRUE
                   /\ wres' = OkResult(hunk_no)
                   /\ wpc' = "send"
                   /\ UNCHANGED <<wi, wcmd, burst_inserts>>
              ELSE /\ decompressed' = FALSE
                   /\ wres' = wres
                   /\ IF wi + 1 < NUM_HUNKS_READAHEAD
                      THEN /\ wi' = wi + 1 /\ wpc' = "poll" /\ wcmd' = wcmd
                           /\ burst_inserts' = burst_inserts + 1
                      ELSE CommandDone
    /\ UNCHANGED <<mainside, cmd_chan, completion_chan, cmd_while_prefetching,
                   last_requested_hunk, codec_errors>>

(* read_hunk_to_cache: the codec returned an error *)
WorkerCodecError ==
    /\ backend = "chd" /\ wpc = "put"
    /\ codec_errors < MaxCodecErrors
    /\ codec_errors' = codec_errors + 1
    /\ LET hunk_no == wcmd.hunk_no + wi
       IN  /\ decompressed' = (wcmd.kind = "ReadHunk" /\ wi = 0)
           /\ AfterRead(ErrResult(hunk_no))
    /\ UNCHANGED <<mainside, cmd_chan, completion_chan, hunk_cache,
                   cmd_while_prefetching, last_requested_hunk>>

(* Mutant of WorkerSend: a completion channel without a slot, where send   *)
(* waits for the main thread to receive                                    *)
WorkerSendRendezvous ==
    /\ backend = "chd" /\ wpc = "send"
    /\ mpc \in {"copy_recv", "read_hunk_drain"}
    /\ Len(completion_chan) < COMPLETION_SLOTS
    /\ completion_chan' = Append(completion_chan, wres)
    /\ wpc' = "low_water"
    /\ wres' = NoResult
    /\ decompressed' = FALSE
    /\ UNCHANGED <<mainside, cmd_chan, hunk_cache, wcmd, wi, cmd_while_prefetching,
                   last_requested_hunk, codec_errors, burst_inserts>>

(* handle_command(ReadHunk): hunk_sender.send(result), the receiver alive *)
WorkerSend ==
    /\ backend = "chd" /\ wpc = "send"
    /\ mpc # "dropped"
    /\ Len(completion_chan) < COMPLETION_SLOTS
    /\ completion_chan' = Append(completion_chan, wres)
    /\ wpc' = "low_water"
    /\ wres' = NoResult
    /\ decompressed' = FALSE
    /\ UNCHANGED <<mainside, cmd_chan, hunk_cache, wcmd, wi, cmd_while_prefetching,
                   last_requested_hunk, codec_errors, burst_inserts>>

(* Mutant of DoReadahead: the end of the image is not tested *)
DoReadaheadIgnoresEnd(cache, hunk_no) ==
    ~(\A x \in (hunk_no + 1)..(hunk_no + NUM_READAHEAD_HUNKS_LOW_WATER) :
         CacheContains(cache, x))

(* handle_command(ReadHunk): do_readahead *)
DoReadahead(cache, hunk_no) ==
    IF num_hunks <= hunk_no + NUM_READAHEAD_HUNKS_LOW_WATER THEN FALSE
    ELSE ~(\A x \in (hunk_no + 1)..(hunk_no + NUM_READAHEAD_HUNKS_LOW_WATER) :
              CacheContains(cache, x))

WorkerLowWater ==
    /\ backend = "chd" /\ wpc = "low_water"
    /\ IF DoReadahead(hunk_cache, wcmd.hunk_no) /\ 1 < NUM_HUNKS_READAHEAD
       THEN /\ wi' = 1
            /\ wpc' = "poll"
            /\ UNCHANGED <<wcmd, burst_inserts>>
       ELSE CommandDone
    /\ UNCHANGED <<mainside, cmd_chan, completion_chan, hunk_cache, wres,
                   cmd_while_prefetching, last_requested_hunk, decompressed,
                   codec_errors>>

(* Mutant of WorkerPoll: the loop goes on after it has deferred a command *)
WorkerPollKeepsPolling ==
    /\ backend = "chd" /\ wpc = "poll"
    /\ IF cmd_chan # << >>
       THEN /\ cmd_while_prefetching' = Some(Head(cmd_chan))
            /\ cmd_chan' = Tail(cmd_chan)
            /\ NextIteration
       ELSE /\ IF wcmd.hunk_no + wi >= num_hunks
               THEN NextIteration
               ELSE wpc' = "check" /\ UNCHANGED <<wcmd, wi, burst_inserts>>
            /\ UNCHANGED <<cmd_while_prefetching, cmd_chan>>
    /\ UNCHANGED <<mainside, completion_chan, hunk_cache, wres, last_requested_hunk,
                   decompressed, codec_errors>>

(* Mutant of WorkerPoll: try_recv only in every other iteration *)
WorkerPollEveryOther ==
    /\ backend = "chd" /\ wpc = "poll"
    /\ IF cmd_chan # << >> /\ wi % 2 = 0
       THEN /\ cmd_while_prefetching' = Some(Head(cmd_chan))
            /\ cmd_chan' = Tail(cmd_chan)
            /\ CommandDone
       ELSE /\ IF wcmd.hunk_no + wi >= num_hunks
               THEN NextIteration
               ELSE wpc' = "check" /\ UNCHANGED <<wcmd, wi, burst_inserts>>
            /\ UNCHANGED <<cmd_while_prefetching, cmd_chan>>
    /\ UNCHANGED <<mainside, completion_chan, hunk_cache, wres, last_requested_hunk,
                   decompressed, codec_errors>>

(* The readahead / prefetch loop: try_recv at the top of an iteration.  A  *)
(* read_hunk_to_cache that fails its range check touches nothing shared    *)
(* and is taken in the same step.                                          *)
WorkerPoll ==
    /\ backend = "chd" /\ wpc = "poll"
    /\ IF cmd_chan # << >>
       THEN /\ cmd_while_prefetching' = Some(Head(cmd_chan))
            /\ cmd_chan' = Tail(cmd_chan)
            /\ CommandDone
       ELSE /\ IF wcmd.hunk_no + wi >= num_hunks
               THEN NextIteration
               ELSE wpc' = "check" /\ UNCHANGED <<wcmd, wi, burst_inserts>>
            /\ UNCHANGED <<cmd_while_prefetching, cmd_chan>>
    /\ UNCHANGED <<mainside, completion_chan, hunk_cache, wres, last_requested_hunk,
                   decompressed, codec_errors>>

----------------------------------------------------------------------------

(* Location::default *)
DefaultLocation ==
    [bin_file_no |-> 0, track_in_bin |-> 0, global_lba |-> 150, bin_local_lba |-> 0]

(* The fields of a ChdImage and of its hunk reader thread right after      *)
(* from_chd; hunk 0 is in the buffer and the cache is empty                *)
InitImage ==
    /\ current_lba = 150
    /\ current_track = 0
    /\ current_hunk_no = Some(0)
    /\ hunk = 0
    /\ hunk_read_pending = FALSE
    /\ mpc = "idle"
    /\ mctx = NoCtx
    /\ ret = NoRet
    /\ cmd_chan = << >>
    /\ completion_chan = << >>
    /\ hunk_cache = << >>
    /\ wpc = "idle"
    /\ wcmd = NoCmd
    /\ wi = 0
    /\ wres = NoResult
    /\ cmd_while_prefetching = None
    /\ last_requested_hunk = 0
    /\ outstanding = << >>
    /\ advised = {}
    /\ burst_inserts = 0
    /\ decompressed = FALSE
    /\ codec_errors = 0
    /\ calls = 0

InitChd ==
    /\ backend = "chd"
    /\ disc \in Discs
    /\ tracks = BuildTracks(disc.chd_tracks, FIRST_TRACK_PREGAP, 0)
    /\ InitImage
    /\ cue = << >>
    /\ bin_files = << >>
    /\ location = DefaultLocation

NextChd ==
    \/ \E target \in TargetMsfs : SetLocation(target)
    \/ AdvancePosition
    \/ \E track \in 0..(Len(tracks) + 1) : SetLocationToTrack(track)
    \/ \E loc \in TargetMsfs : AdvisePrefetch(loc)
    \/ CopyCurrentSector
    \/ ReadHunkDrain
    \/ ReadHunkLookup
    \/ ReadHunkPrefetch
    \/ ReadHunkSend
    \/ CopyRecv
    \/ CopyGet
    \/ WorkerTakeDeferred
    \/ WorkerRecv
    \/ WorkerCheck
    \/ WorkerPut
    \/ WorkerCodecError
    \/ WorkerSend
    \/ WorkerLowWater
    \/ WorkerPoll

SpecChd == InitChd /\ [][NextChd]_vars

----------------------------------------------------------------------------
(* Dropping the ChdImage.  The fields of ChdHunkReader are dropped with    *)
(* it: the JoinHandle (which detaches the thread), cmd_sender and          *)
(* completion_receiver.  Commands already queued stay readable by the      *)
(* worker; a completion nobody received is gone with the receiver.         *)

Drop ==
    /\ backend = "chd" /\ mpc = "idle"
    /\ mpc' = "dropped"
    /\ completion_chan' = << >>
    /\ UNCHANGED <<static, calls, current_lba, current_track, current_hunk_no, hunk,
                   hunk_read_pending, mctx, ret, outstanding, advised, cmd_chan,
                   hunk_cache, workervars>>

(* The worker has left the loop of ChdThread::run *)
WorkerExits ==
    /\ wpc' = "exited"
    /\ wcmd' = NoCmd
    /\ wi' = 0
    /\ wres' = NoResult
    /\ burst_inserts' = 0
    /\ decompressed' = FALSE
    /\ UNCHANGED <<mainside, cmd_chan, completion_chan, hunk_cache,
                   cmd_while_prefetching, last_requested_hunk, codec_errors>>

(* Mutant of WorkerRecvClosed: the Err of recv() does not end the loop *)
WorkerRecvClosedLoops ==
    /\ backend = "chd" /\ wpc = "idle"
    /\ mpc = "dropped"
    /\ cmd_while_prefetching = None
    /\ cmd_chan = << >>
    /\ UNCHANGED vars

(* ChdThread::run: recv() on the empty command channel whose sender is     *)
(* gone returns Err, and the loop breaks                                   *)
WorkerRecvClosed ==
    /\ backend = "chd" /\ wpc = "idle"
    /\ mpc = "dropped"
    /\ cmd_while_prefetching = None
    /\ cmd_chan = << >>
    /\ WorkerExits

(* handle_command(ReadHunk): hunk_sender.send(result)? with the receiver   *)
(* gone returns the SendError, and run breaks on result.is_err()           *)
WorkerSendClosed ==
    /\ backend = "chd" /\ wpc = "send"
    /\ mpc = "dropped"
    /\ WorkerExits

(* The steps of the worker thread *)
WorkerStep ==
    \/ WorkerTakeDeferred
    \/ WorkerRecv
    \/ WorkerCheck
    \/ WorkerPut
    \/ WorkerCodecError
    \/ WorkerSend
    \/ WorkerLowWater
    \/ WorkerPoll
    \/ WorkerRecvClosed
    \/ WorkerSendClosed

(* The image is dropped after at most MaxCallsBeforeDrop public calls *)
NextDrop ==
    \/ NextChd /\ calls' <= MaxCallsBeforeDrop
    \/ Drop
    \/ WorkerRecvClosed
    \/ WorkerSendClosed

(* The worker is a thread of its own: the scheduler lets it run, and each  *)
(* of its steps (a channel operation that is possible, a cache access, a   *)
(* decompression) ends.                                                    *)
SpecDrop == InitChd /\ [][NextDrop]_vars /\ WF_vars(WorkerStep)

(* The steps the main thread takes inside a public call *)
MainStep ==
    \/ ReadHunkDrain
    \/ ReadHunkLookup
    \/ ReadHunkPrefetch
    \/ ReadHunkSend
    \/ CopyRecv
    \/ CopyGet

(* The image alive: at most MaxCallsBeforeDrop public calls and no drop *)
NextAlive == NextChd /\ calls' <= MaxCallsBeforeDrop

(* The same with no assumption on the scheduling *)
SpecFewCalls == InitChd /\ [][NextAlive]_vars

(* Both threads run: a step of the worker, or of the main thread inside a  *)
(* call, that stays possible is taken.  Whether the caller makes another   *)
(* call is up to the caller.                                               *)
SpecAlive == InitChd /\ [][NextAlive]_vars /\ WF_vars(WorkerStep) /\ WF_vars(MainStep)

----------------------------------------------------------------------------
(* The track list of a ChdImage and hunk_no_for_lba, for CHD files with    *)
(* every track list of up to MaxTracks tracks of 1 to MaxFrames frames.    *)
(* A hunk is one sector here, so that a hunk number is a file-local LBA,   *)
(* and the image file has room for every track padded to 4 frames.         *)

TrackListDiscs ==
    { [ hunk_count |-> MaxTracks * PAD_ALIGN * ((MaxFrames + PAD_ALIGN - 1) \div PAD_ALIGN),
        sectors_per_hunk |-> 1,
        chd_tracks |-> chd_tracks ] :
      chd_tracks \in UNION { [1..n -> [frames : 1..MaxFrames, track_type : {"Mode2"},
                                       pregap : {Some(0)}]] : n \in 1..MaxTracks } }

(* set_location_lba for an lba >= FIRST_TRACK_PREGAP, as far as           *)
(* hunk_no_for_lba: update_current_track(lba), then hunk_no_for_lba(lba)   *)
(* with the track it found                                                 *)
HunkNoForLbaCall(lba) ==
    /\ backend = "tracks"
    /\ LET trk == UpdateCurrentTrack(current_track, lba)
       IN  IF trk = -1
           THEN /\ ret' = [op |-> "hunk_no_for_lba", arg |-> Some(lba),
                           res |-> "OutOfRange", val |-> None]
                /\ UNCHANGED current_track
           ELSE /\ current_track' = trk
                /\ ret' = [op |-> "hunk_no_for_lba", arg |-> Some(lba),
                           res |-> IF HunkNoForLba(trk, lba) = -1 THEN "OutOfRange" ELSE "Ok",
                           val |-> Some(HunkNoForLba(trk, lba))]
    /\ UNCHANGED <<static, calls, current_lba, current_hunk_no, hunk, hunk_read_pending,
                   mpc, mctx, outstanding, advised, cmd_chan, completion_chan,
                   hunk_cache, workervars>>

InitTrackLists ==
    /\ backend = "tracks"
    /\ disc \in TrackListDiscs
    /\ tracks = BuildTracks(disc.chd_tracks, FIRST_TRACK_PREGAP, 0)
    /\ InitImage
    /\ cue = << >>
    /\ bin_files = << >>
    /\ location = DefaultLocation

SpecTrackLists ==
    InitTrackLists
    /\ [][\E lba \in FIRST_TRACK_PREGAP..(FIRST_TRACK_PREGAP + MaxTracks * MaxFrames) :
              HunkNoForLbaCall(lba)]_vars

----------------------------------------------------------------------------
(* Cuesheet (cue.rs).  A cue sheet is the sequence of its FILE lines, each *)
(* with the sector count of the bin file and its TRACK lines; a TRACK has  *)
(* its INDEX 01 and, when index0 is not None, an INDEX 00 (both as LBAs    *)
(* local to the bin file).                                                 *)

CueTrack(track_type, index0, index1) ==
    [track_type |-> track_type, index0 |-> index0, index1 |-> index1]

CueSheets ==
    { \* one bin, the second track with an INDEX 00
      << [sectors |-> 4,
          tracks |-> << CueTrack("Mode2", None, 0), CueTrack("Audio", Some(2), 3) >>] >>,
      \* two bins with one track each
      << [sectors |-> 3, tracks |-> << CueTrack("Mode2", None, 0) >>],
         [sectors |-> 3, tracks |-> << CueTrack("Audio", Some(0), 1) >>] >>,
      \* two bins, the second with two tracks
      << [sectors |-> 2, tracks |-> << CueTrack("Mode2", None, 0) >>],
         [sectors |-> 4,
          tracks |-> << CueTrack("Audio", None, 0), CueTrack("Audio", Some(2), 3) >>] >>,
      \* one bin whose first track starts at bin-local LBA 1
      << [sectors |-> 4,
          tracks |-> << CueTrack("Mode2", None, 1), CueTrack("Audio", None, 3) >>] >>,
      \* one bin whose second track has no sectors
      << [sectors |-> 3,
          tracks |-> << CueTrack("Mode2", None, 0), CueTrack("Audio", None, 2),
                        CueTrack("Audio", None, 2) >>] >> }

(* Track::first_index_lba *)
FirstIndexLba(t) == IF t.index0 # None THEN t.index0[1] ELSE t.index1

(* BinFile::finalize_tracks from track i on; starting_lba is what the      *)
(* loop has stored in track i by then (0 for the first track, as           *)
(* parse_track_line made it)                                               *)
RECURSIVE FinalizeFrom(_, _, _, _)
FinalizeFrom(ts, i, starting_lba, bin_num_sectors) ==
    IF i = Len(ts)
    THEN << [track_type |-> ts[i].track_type, index0 |-> ts[i].index0,
             index1 |-> ts[i].index1, starting_lba |-> starting_lba,
             num_sectors |-> bin_num_sectors - FirstIndexLba(ts[i])] >>
    ELSE LET length == FirstIndexLba(ts[i + 1]) - FirstIndexLba(ts[i])
         IN  << [track_type |-> ts[i].track_type, index0 |-> ts[i].index0,
                 index1 |-> ts[i].index1, starting_lba |-> starting_lba,
                 num_sectors |-> length] >>
             \o FinalizeFrom(ts, i + 1, starting_lba + length, bin_num_sectors)

FinalizeTracks(bin) ==
    [sectors |-> bin.sectors, tracks |-> FinalizeFrom(bin.tracks, 1, 0, bin.sectors)]

(* The sum of BinFile::num_sectors over the first n bin files *)
RECURSIVE SectorsBefore(_)
SectorsBefore(n) == IF n = 0 THEN 0 ELSE SectorsBefore(n - 1) + bin_files[n].sectors

RECURSIVE TracksBefore(_)
TracksBefore(n) == IF n = 0 THEN 0 ELSE TracksBefore(n - 1) + Len(bin_files[n].tracks)

(* Cuesheet::current_track *)
CueCurrentTrack(loc) == TracksBefore(loc.bin_file_no) + loc.track_in_bin + 1

(* Mutant of TrackStartFrom: the sectors of the bin files skipped are not  *)
(* added to the position                                                   *)
RECURSIVE TrackStartFromNoBinPos(_, _, _, _)
TrackStartFromNoBinPos(b, track, tracks_skipped, bin_pos_on_disc) ==
    IF b > Len(bin_files) THEN -1
    ELSE IF Len(bin_files[b].tracks) >= track - tracks_skipped
    THEN bin_files[b].tracks[track - tracks_skipped].index1 + 150
    ELSE TrackStartFromNoBinPos(b + 1, track, tracks_skipped + Len(bin_files[b].tracks), 0)

(* Cuesheet::track_start as an LBA, -1 for Err(OutOfRange) *)
RECURSIVE TrackStartFrom(_, _, _, _)
TrackStartFrom(b, track, tracks_skipped, bin_pos_on_disc) ==
    IF b > Len(bin_files) THEN -1
    ELSE IF Len(bin_files[b].tracks) >= track - tracks_skipped
    THEN LET track_in_bin == track - tracks_skipped - 1
             track_index_one == bin_files[b].tracks[track_in_bin + 1].index1
             pos_on_disc == bin_pos_on_disc + track_index_one + 150
         IN  IF MsfFromLba(pos_on_disc) = None THEN -1 ELSE pos_on_disc
    ELSE TrackStartFrom(b + 1, track, tracks_skipped + Len(bin_files[b].tracks),
                        bin_pos_on_disc + bin_files[b].sectors)

CueTrackStart(track) ==
    IF track = 0
    THEN LET len == 150 + SectorsBefore(Len(bin_files))
         IN  IF MsfFromLba(len) = None THEN -1 ELSE len
    ELSE TrackStartFrom(1, track, 0, 0)

(* Cuesheet::set_location, the inner loop over the tracks of a bin file:   *)
(* the track found, or what is left of current_lba_left after the loop     *)
RECURSIVE SearchTracks(_, _, _)
SearchTracks(trks, track_no, current_lba_left) ==
    IF track_no >= Len(trks) THEN [found |-> FALSE, track_no |-> 0, left |-> current_lba_left]
    ELSE IF trks[track_no + 1].num_sectors > current_lba_left
    THEN [found |-> TRUE, track_no |-> track_no, left |-> current_lba_left]
    ELSE SearchTracks(trks, track_no + 1, current_lba_left - trks[track_no + 1].num_sectors)

(* Cuesheet::set_location, the loop over the bin files: Some(location) or  *)
(* None for Err(OutOfRange)                                                *)
RECURSIVE SearchBins(_, _, _)
SearchBins(bin_file_no, current_lba_left, target_lba) ==
    IF bin_file_no >= Len(bin_files) THEN None
    ELSE LET bin_file == bin_files[bin_file_no + 1]
         IN  IF bin_file.sectors > current_lba_left
             THEN LET r == SearchTracks(bin_file.tracks, 0, current_lba_left)
                  IN  IF r.found
                      THEN Some([bin_file_no |-> bin_file_no, track_in_bin |-> r.track_no,
                                 global_lba |-> target_lba,
                                 bin_local_lba |-> current_lba_left])
                      ELSE SearchBins(bin_file_no + 1, r.left, target_lba)
             ELSE SearchBins(bin_file_no + 1, current_lba_left - bin_file.sectors,
                             target_lba)

(* Cuesheet::set_location: Some(new location) or None for Err(OutOfRange) *)
CueLocate(target_lba) ==
    IF target_lba < 150
    THEN Some([bin_file_no |-> 0, track_in_bin |-> 0, global_lba |-> target_lba,
               bin_local_lba |-> 0])
    ELSE SearchBins(0, target_lba - 150, target_lba)

(* The fields of the ChdImage model, which a Cuesheet does not have *)
nochd == <<disc, tracks, current_lba, current_track, current_hunk_no, hunk,
           hunk_read_pending, mpc, mctx, cmd_chan, completion_chan, hunk_cache,
           wpc, wcmd, wi, wres, cmd_while_prefetching, last_requested_hunk,
           outstanding, advised, burst_inserts, decompressed, codec_errors, calls>>

CueReturns(op, arg, res, val) ==
    ret' = [op |-> op, arg |-> arg, res |-> res, val |-> val]

(* The LBAs the model passes to Cuesheet::set_location: the last sector of *)
(* the first track's pregap, every sector of the bin files and the first   *)
(* LBA past them                                                           *)
CueTargetLbas == (150 - 1) .. (150 + SectorsBefore(Len(bin_files)))

CueTargetMsfs == {MsfFromLba(l)[1] : l \in CueTargetLbas}

CueSetLocation(target) ==
    /\ backend = "cue"
    /\ LET found == CueLocate(MsfToLba(target))
       IN  IF found # None
           THEN /\ location' = found[1]
                /\ CueReturns("set_location", Some(MsfToLba(target)), "Ok", None)
           ELSE /\ location' = location
                /\ CueReturns("set_location", Some(MsfToLba(target)), "OutOfRange", None)
    /\ UNCHANGED <<backend, cue, bin_files, nochd>>

CueSetLocationToTrack(track) ==
    /\ backend = "cue"
    /\ LET track_start_loc == CueTrackStart(track)
           found == CueLocate(MsfToLba(MsfFromLba(track_start_loc)[1]))
       IN  IF track_start_loc # -1 /\ found # None
           THEN /\ location' = found[1]
                /\ CueReturns("set_location_to_track", Some(track), "Ok", None)
           ELSE /\ location' = location
                /\ CueReturns("set_location_to_track", Some(track), "OutOfRange", None)
    /\ UNCHANGED <<backend, cue, bin_files, nochd>>

CueAdvancePosition ==
    /\ backend = "cue"
    /\ location.global_lba < CueTrackStart(0) + MaxPastEnd
    /\ LET old_track == CueCurrentTrack(location)
           bin_file == bin_files[location.bin_file_no + 1]
           track == bin_file.tracks[location.track_in_bin + 1]
           track_end == track.starting_lba + track.num_sectors
       IN  IF location.global_lba < 150
           THEN /\ location' = [location EXCEPT !.global_lba = @ + 1]
                /\ CueReturns("advance_position", Some(old_track), "Ok", Some("None"))
           ELSE IF location.bin_local_lba + 1 < track_end
           THEN /\ location' = [location EXCEPT !.global_lba = @ + 1,
                                                !.bin_local_lba = @ + 1]
                /\ CueReturns("advance_position", Some(old_track), "Ok", Some("None"))
           ELSE IF Len(bin_file.tracks) > location.track_in_bin + 1
           THEN /\ location' = [location EXCEPT !.global_lba = @ + 1,
                                                !.bin_local_lba = @ + 1,
                                                !.track_in_bin = @ + 1]
                /\ CueReturns("advance_position", Some(old_track), "Ok",
                              Some("TrackChange"))
           ELSE IF Len(bin_files) > location.bin_file_no + 1
           THEN /\ location' = [location EXCEPT !.global_lba = @ + 1,
                                                !.bin_local_lba = 0,
                                                !.track_in_bin = 0,
                                                !.bin_file_no = @ + 1]
                /\ CueReturns("advance_position", Some(old_track), "Ok",
                              Some("TrackChange"))
           ELSE /\ location' = [location EXCEPT !.global_lba = @ + 1,
                                                !.bin_local_lba = @ + 1]
                /\ CueReturns("advance_position", Some(old_track), "Ok",
                              Some("EndOfDisc"))
    /\ UNCHANGED <<backend, cue, bin_files, nochd>>

(* The 2352 bytes at byte offset bin_local_lba * 2352 of a bin file *)
BinSector(bin_file_no, bin_local_lba) ==
    [bin_file_no |-> bin_file_no, bin_local_lba |-> bin_local_lba]

(* Cuesheet::copy_current_sector: zeroes in the first track's pregap, else *)
(* seek and read_exact, which fails past the end of the bin file           *)
CueCopyCurrentSector ==
    /\ backend = "cue"
    /\ IF location.global_lba < 150
       THEN CueReturns("copy_current_sector", None, "Ok", Some(ZeroSector))
       ELSE IF location.bin_local_lba < bin_files[location.bin_file_no + 1].sectors
       THEN CueReturns("copy_current_sector", None, "Ok",
                       Some(BinSector(location.bin_file_no, location.bin_local_lba)))
       ELSE CueReturns("copy_current_sector", None, "IoError", None)
    /\ UNCHANGED <<backend, cue, bin_files, location, nochd>>

(* Cuesheet::track_start as the caller sees it *)
CueTrackStartCall(track) ==
    /\ backend = "cue"
    /\ LET lba == CueTrackStart(track)
       IN  IF lba = -1
           THEN CueReturns("track_start", Some(track), "OutOfRange", None)
           ELSE CueReturns("track_start", Some(track), "Ok", MsfFromLba(lba))
    /\ UNCHANGED <<backend, cue, bin_files, location, nochd>>

(* Cuesheet::current_index *)
CueCurrentIndex ==
    /\ backend = "cue"
    /\ LET index_one ==
               bin_files[location.bin_file_no + 1].tracks[location.track_in_bin + 1].index1
       IN  CueReturns("current_index", None, "Ok",
                      Some(IF location.bin_local_lba >= index_one THEN 1 ELSE 0))
    /\ UNCHANGED <<backend, cue, bin_files, location, nochd>>

(* Cuesheet::current_track_local_msf.  Neither subtraction can wrap:       *)
(* starting_lba never exceeds the track's INDEX 01 nor bin_local_lba.      *)
CueCurrentTrackLocalMsf ==
    /\ backend = "cue"
    /\ LET track == bin_files[location.bin_file_no + 1].tracks[location.track_in_bin + 1]
           start_of_track == track.starting_lba
           index_one == track.index1 - start_of_track
           track_local == location.bin_local_lba - start_of_track
           reference == 100 * 60 * 75
           msf == IF track_local < index_one
                  THEN MsfFromLba(reference - (index_one - track_local))
                  ELSE MsfFromLba(track_local - index_one)
       IN  IF msf = None
           THEN CueReturns("current_track_local_msf", None, "OutOfRange", None)
           ELSE CueReturns("current_track_local_msf", None, "Ok", msf)
    /\ UNCHANGED <<backend, cue, bin_files, location, nochd>>

(* A ChdImage that was never opened *)
NoDisc == [hunk_count |-> 0, sectors_per_hunk |-> 1, chd_tracks |-> << >>]

InitCue ==
    /\ backend = "cue"
    /\ cue \in CueSheets
    /\ bin_files = [b \in 1..Len(cue) |-> FinalizeTracks(cue[b])]
    /\ location = DefaultLocation
    /\ disc = NoDisc
    /\ tracks = << >>
    /\ InitImage

NextCue ==
    \/ \E target \in CueTargetMsfs : CueSetLocation(target)
    \/ \E track \in 0..(TracksBefore(Len(bin_files)) + 1) : CueSetLocationToTrack(track)
    \/ CueAdvancePosition
    \/ CueCopyCurrentSector
    \/ \E track \in 0..(TracksBefore(Len(bin_files)) + 1) : CueTrackStartCall(track)
    \/ CueCurrentIndex
    \/ CueCurrentTrackLocalMsf

SpecCue == InitCue /\ [][NextCue]_vars

----------------------------------------------------------------------------
(* The Cuesheet of lib.rs, which reads with get_next_sector.  Its          *)
(* BinFile::finalize gives a track the same num_sectors as finalize_tracks *)
(* of cue.rs does, indices.first() is the track's INDEX 01 (index1) and    *)
(* Pregap::Index00 its INDEX 00 (index0), so bin_files is as above.  The   *)
(* Option<Location> is in `location`.  In the model's cue sheets no track  *)
(* is shorter than its INDEX 00 region, so the unsigned subtraction of     *)
(* set_location_to_track does not wrap.                                    *)

(* set_location for a sector of the bin files (sector_no - 150): the loop  *)
(* over the bin files from bin_i on.  A bin file none of whose tracks      *)
(* holds the sector is left with bin_pos_on_disc and track_no unchanged.   *)
RECURSIVE LibLocate(_, _, _, _)
LibLocate(bin_i, bin_pos_on_disc, track_no, sector_no) ==
    IF bin_i >= Len(bin_files) THEN None
    ELSE LET bin == bin_files[bin_i + 1]
             RECURSIVE track_pos(_)
             track_pos(i) == IF i = 0 THEN bin_pos_on_disc
                             ELSE track_pos(i - 1) + bin.tracks[i].num_sectors
             holding == {i \in 0..(Len(bin.tracks) - 1) :
                            track_pos(i) + bin.tracks[i + 1].num_sectors > sector_no}
             track_i == CHOOSE i \in holding : \A j \in holding : i <= j
         IN  IF bin_pos_on_disc + bin.sectors > sector_no
             THEN IF holding # {}
                  THEN Some([bin_file_no |-> bin_i,
                             track_no |-> track_no + track_i,
                             track_in_bin |-> track_i,
                             global_position |-> sector_no,
                             local_sector |-> sector_no - bin_pos_on_disc,
                             first_track_pregap_sectors_left |-> None,
                             sectors_left |-> bin.tracks[track_i + 1].num_sectors
                                              - (sector_no - track_pos(track_i))])
                  ELSE LibLocate(bin_i + 1, bin_pos_on_disc, track_no, sector_no)
             ELSE LibLocate(bin_i + 1, bin_pos_on_disc + bin.sectors,
                            track_no + Len(bin.tracks), sector_no)

(* Cuesheet::set_location of lib.rs: Some(new location), None for          *)
(* Err(OutOfRange)                                                         *)
LibSetLocationTo(sector_no) ==
    IF sector_no < 150
    THEN Some([bin_file_no |-> 0, track_no |-> 0, track_in_bin |-> 0,
               global_position |-> 0, local_sector |-> 0,
               first_track_pregap_sectors_left |-> Some(150 - sector_no),
               sectors_left |-> 0])
    ELSE LibLocate(0, 0, 0, sector_no - 150)

LibReturns(op, arg, res, val) ==
    /\ backend = "lib"
    /\ ret.res # "panic"
    /\ ret' = [op |-> op, arg |-> arg, res |-> res, val |-> val]
    /\ UNCHANGED <<backend, cue, bin_files, nochd>>

LibSetLocation(msf) ==
    LET found == LibSetLocationTo(MsfToLba(msf))
    IN  IF found # None
        THEN location' = found /\ LibReturns("set_location", Some(MsfToLba(msf)), "Ok", None)
        ELSE /\ location' = location
             /\ LibReturns("set_location", Some(MsfToLba(msf)), "OutOfRange", None)

(* Cuesheet::set_location_to_track of lib.rs: the first bin file that has  *)
(* the track, counting the tracks of the bin files before it               *)
LibSetLocationToTrack(track) ==
    IF track = 0 \/ track > TracksBefore(Len(bin_files))
    THEN /\ location' = location
         /\ LibReturns("set_location_to_track", Some(track), "OutOfRange", None)
    ELSE LET bin_i == CHOOSE b \in 0..(Len(bin_files) - 1) :
                          TracksBefore(b) < track /\ track <= TracksBefore(b + 1)
             track_in_bin == track - TracksBefore(bin_i) - 1
             t == bin_files[bin_i + 1].tracks[track_in_bin + 1]
         IN  /\ location' = Some([bin_file_no |-> bin_i,
                                  track_no |-> track - 1,
                                  track_in_bin |-> track_in_bin,
                                  global_position |-> SectorsBefore(bin_i) + t.index1,
                                  local_sector |-> t.index1,
                                  first_track_pregap_sectors_left |-> None,
                                  sectors_left |-> t.num_sectors
                                                   - (t.index1 - FirstIndexLba(t))])
             /\ LibReturns("set_location_to_track", Some(track), "Ok", None)

(* Cuesheet::get_next_sector.  The sector returned is a slice of the bin   *)
(* file, which panics past the end of the file.                            *)
LibGetNextSector ==
    IF location = None
    THEN /\ location' = location
         /\ LibReturns("get_next_sector", None, "NoLocationSet", None)
    ELSE LET loc == location[1] IN
         IF loc.first_track_pregap_sectors_left # None
         THEN LET new_pregap_sectors == loc.first_track_pregap_sectors_left[1] - 1
              IN  /\ location' =
                        IF new_pregap_sectors = 0
                        THEN Some([bin_file_no |-> 0, track_no |-> 0, track_in_bin |-> 0,
                                   global_position |-> 0, local_sector |-> 0,
                                   first_track_pregap_sectors_left |-> None,
                                   sectors_left |-> bin_files[1].sectors])
                        ELSE Some([loc EXCEPT !.first_track_pregap_sectors_left =
                                                  Some(new_pregap_sectors)])
                  /\ LibReturns("get_next_sector", None, "Ok",
                                Some([sector |-> ZeroSector, event |-> "None"]))
         ELSE LET new_loc == [loc EXCEPT !.local_sector = @ + 1,
                                         !.sectors_left = @ - 1,
                                         !.global_position = @ + 1]
                  found == LibSetLocationTo(new_loc.global_position + 150)
                  sector == BinSector(loc.bin_file_no, loc.local_sector)
              IN  IF loc.sectors_left = 0
                  THEN /\ location' = Some([loc EXCEPT !.local_sector = @ + 1])
                       /\ LibReturns("get_next_sector", None, "panic", None)
                  ELSE IF new_loc.sectors_left = 0 /\ found = None
                  THEN /\ location' = Some(new_loc)
                       /\ LibReturns("get_next_sector", None, "OutOfRange", None)
                  ELSE IF loc.local_sector >= bin_files[loc.bin_file_no + 1].sectors
                  THEN /\ location' = IF new_loc.sectors_left = 0 THEN found
                                                                   ELSE Some(new_loc)
                       /\ LibReturns("get_next_sector", None, "panic", None)
                  ELSE IF new_loc.sectors_left = 0
                  THEN /\ location' = found
                       /\ LibReturns("get_next_sector", None, "Ok",
                                     Some([sector |-> sector, event |-> "TrackChange"]))
                  ELSE /\ location' = Some(new_loc)
                       /\ LibReturns("get_next_sector", None, "Ok",
                                     Some([sector |-> sector, event |-> "None"]))

(* Cuesheet::open_cue returns the cue sheet with no location set *)
InitLib ==
    /\ backend = "lib"
    /\ cue \in CueSheets
    /\ bin_files = [b \in 1..Len(cue) |-> FinalizeTracks(cue[b])]
    /\ location = None
    /\ disc = NoDisc
    /\ tracks = << >>
    /\ InitImage

NextLib ==
    \/ \E l \in (150 - MaxPregapStart)..(150 + SectorsBefore(Len(bin_files))) :
          LibSetLocation(MsfFromLba(l)[1])
    \/ \E track \in 0..(TracksBefore(Len(bin_files)) + 1) : LibSetLocationToTrack(track)
    \/ LibGetNextSector

SpecLib == InitLib /\ [][NextLib]_vars

----------------------------------------------------------------------------
(* Either backend behind the Image trait *)

Init == InitChd \/ InitCue

Next == NextChd \/ NextCue

Spec == Init /\ [][Next]_vars

----------------------------------------------------------------------------
(* The getters of ChdImage.  They read the fields the main thread owns and *)
(* change nothing.                                                         *)

(* CHD files whose track metadata is in the old format, without PREGAP     *)
(* (CdTrackInfo::from_v1_metadata)                                         *)
DiscsV1 ==
    { [ hunk_count |-> 3, sectors_per_hunk |-> 2,
        chd_tracks |-> << [frames |-> 3, track_type |-> "Mode2", pregap |-> None],
                          [frames |-> 2, track_type |-> "Audio", pregap |-> None] >> ] }

(* Option<u32>::unwrap_or *)
UnwrapOr(opt, default) == IF opt = None THEN default ELSE opt[1]

Getter(op, arg, res, val) ==
    /\ ret' = [op |-> op, arg |-> arg, res |-> res, val |-> val]
    /\ mpc' = IF res = "panic" THEN "panicked" ELSE mpc
    /\ UNCHANGED <<static, calls, current_lba, current_track, current_hunk_no, hunk,
                   hunk_read_pending, mctx, outstanding, advised, cmd_chan,
                   completion_chan, hunk_cache, workervars>>

(* ChdImage::track_start as the caller sees it *)
ChdTrackStartCall(track) ==
    /\ backend = "chd" /\ mpc = "idle"
    /\ LET lba == ChdTrackStart(track)
       IN  IF lba = -1 THEN Getter("track_start", Some(track), "OutOfRange", None)
           ELSE Getter("track_start", Some(track), "Ok", MsfFromLba(lba))

(* ChdImage::current_index.  current_lba - start_lba is a u32 subtraction: *)
(* below start_lba it panics in a build with overflow checks and wraps to  *)
(* a number near 2^32, larger than any pregap, in a build without.         *)
ChdCurrentIndex ==
    /\ backend = "chd" /\ mpc = "idle"
    /\ LET t == tracks[current_track + 1]
       IN  IF current_lba < t.start_lba
           THEN \/ Getter("current_index", None, "panic", None)
                \/ Getter("current_index", None, "Ok", Some(1))
           ELSE Getter("current_index", None, "Ok",
                       Some(IF current_lba - t.start_lba > UnwrapOr(t.pregap, 0)
                            THEN 1 ELSE 0))

(* ChdImage::current_track_local_msf *)
ChdCurrentTrackLocalMsf ==
    /\ backend = "chd" /\ mpc = "idle"
    /\ LET t == tracks[current_track + 1]
           index01_lba == t.start_lba + UnwrapOr(t.pregap, 150)
           reference == 100 * 60 * 75
           msf == IF current_lba < index01_lba
                  THEN MsfFromLba(reference - (index01_lba - current_lba))
                  ELSE MsfFromLba(current_lba - index01_lba)
       IN  IF msf = None THEN Getter("current_track_local_msf", None, "OutOfRange", None)
           ELSE Getter("current_track_local_msf", None, "Ok", msf)

InitQuery ==
    \/ /\ backend = "chd"
       /\ disc \in Discs \cup DiscsV1
       /\ tracks = BuildTracks(disc.chd_tracks, FIRST_TRACK_PREGAP, 0)
       /\ InitImage
       /\ cue = << >>
       /\ bin_files = << >>
       /\ location = DefaultLocation
    \/ InitCue

(* The getters are called between at most MaxQueryCalls calls that move    *)
(* the position or read a sector                                           *)
NextQuery ==
    \/ NextChd /\ calls' <= MaxQueryCalls
    \/ \E track \in 0..(Len(tracks) + 1) : ChdTrackStartCall(track)
    \/ ChdCurrentIndex
    \/ ChdCurrentTrackLocalMsf
    \/ NextCue

SpecQuery == InitQuery /\ [][NextQuery]_vars

----------------------------------------------------------------------------
(* MsfIndex of index.rs: three u8 fields (minutes, seconds, frames), here  *)
(* <<m, s, f>>; a Result is Some(value) or None for Err(OutOfRangeError).  *)

(* Sector numbers given to from_sector_number: around the second, minute   *)
(* and 100-minute marks and around the first minute counts that no longer  *)
(* fit in a u8                                                             *)
SectorNumbers ==
    {0, 1, 74, 75, 4499, 4500, 4501, 449925, 449999, 450000, 450001, 454499, 454500,
     1147499, 1147500, 1151999, 1152000, 1152001, 1156500, 1597499, 1597500, 1602000,
     2304000, 2147483647}

(* The fields of the valid MsfIndex values the model converts *)
MsfMinutes == {0, 1, 9, 10, 50, 98, 99}
MsfSeconds == {0, 1, 30, 59}
MsfFrames == {0, 1, 37, 74}

(* The bytes the model passes to from_bcd_values *)
BcdBytes == {0, 9, 10, 16, 89, 96, 116, 117, 153, 154, 160, 255}

(* `as u8` *)
AsU8(n) == n % 256

(* MsfIndex::new *)
MsfNew(m, s, f) == IF m > 99 \/ s > 59 \/ f > 74 THEN None ELSE Some(<<m, s, f>>)

(* MsfIndex::from_sector_number *)
FromSectorNumber(sector_no) ==
    LET m == sector_no \div (60 * 75)
        temp_sectors == sector_no - m * 60 * 75
        sec == temp_sectors \div 75
        f == temp_sectors - sec * 75
    IN  MsfNew(AsU8(m), AsU8(sec), AsU8(f))

(* Mutant of ToSectorNumber: a second counted as 60 frames *)
ToSectorNumberSixty(x) == x[1] * 60 * 75 + x[2] * 60 + x[3]

(* MsfIndex::to_sector_number *)
ToSectorNumber(x) == x[1] * 60 * 75 + x[2] * 75 + x[3]

(* Mutant of FromBcdValues: the low nibbles are not checked *)
FromBcdValuesHighNibbleOnly(m_bcd, s_bcd, f_bcd) ==
    IF m_bcd \div 16 > 9 \/ s_bcd \div 16 > 9 \/ f_bcd \div 16 > 9
    THEN None
    ELSE MsfNew(AsU8((m_bcd \div 16) * 10 + (m_bcd % 16)),
                AsU8((s_bcd \div 16) * 10 + (s_bcd % 16)),
                AsU8((f_bcd \div 16) * 10 + (f_bcd % 16)))

(* MsfIndex::from_bcd_values: (b & 0xf0) > 0x90 is b / 16 > 9, and         *)
(* (b & 0x0f) > 0x09 is b % 16 > 9                                         *)
FromBcdValues(m_bcd, s_bcd, f_bcd) ==
    IF \/ m_bcd \div 16 > 9 \/ m_bcd % 16 > 9
       \/ s_bcd \div 16 > 9 \/ s_bcd % 16 > 9
       \/ f_bcd \div 16 > 9 \/ f_bcd % 16 > 9
    THEN None
    ELSE MsfNew(AsU8((m_bcd \div 16) * 10 + (m_bcd % 16)),
                AsU8((s_bcd \div 16) * 10 + (s_bcd % 16)),
                AsU8((f_bcd \div 16) * 10 + (f_bcd % 16)))

(* MsfIndex::to_bcd_values *)
ToBcdValues(x) ==
    << AsU8((x[1] \div 10) * 16 + (x[1] % 10)),
       AsU8((x[2] \div 10) * 16 + (x[2] % 10)),
       AsU8((x[3] \div 10) * 16 + (x[3] % 10)) >>

(* The conversions have no state: a call leaves only its result *)
IndexReturns(op, arg, result) ==
    /\ backend = "index"
    /\ ret' = [op |-> op, arg |-> Some(arg),
               res |-> IF result = None THEN "OutOfRangeError" ELSE "Ok",
               val |-> result]
    /\ UNCHANGED <<backend, cue, bin_files, location, nochd>>

(* MsfIndex::from_sector_number(sector_no) *)
FromSectorNumberCall(sector_no) ==
    IndexReturns("from_sector_number", sector_no, FromSectorNumber(sector_no))

(* MsfIndex::from_sector_number(x.to_sector_number()) *)
SectorNumberRoundTrip(x) ==
    IndexReturns("from_sector_number(to_sector_number)", x,
                 FromSectorNumber(ToSectorNumber(x)))

(* MsfIndex::from_bcd_values(m_bcd, s_bcd, f_bcd) *)
FromBcdValuesCall(m_bcd, s_bcd, f_bcd) ==
    IndexReturns("from_bcd_values", <<m_bcd, s_bcd, f_bcd>>,
                 FromBcdValues(m_bcd, s_bcd, f_bcd))

(* MsfIndex::from_bcd_values(m_bcd, s_bcd, f_bcd).map(|x| x.to_bcd_values()) *)
BcdRoundTrip(m_bcd, s_bcd, f_bcd) ==
    LET x == FromBcdValues(m_bcd, s_bcd, f_bcd)
    IN  IndexReturns("to_bcd_values(from_bcd_values)", <<m_bcd, s_bcd, f_bcd>>,
                     IF x = None THEN None ELSE Some(ToBcdValues(x[1])))

InitIndex ==
    /\ backend = "index"
    /\ cue = << >>
    /\ bin_files = << >>
    /\ location = DefaultLocation
    /\ disc = NoDisc
    /\ tracks = << >>
    /\ InitImage

NextIndex ==
    \/ \E sector_no \in SectorNumbers : FromSectorNumberCall(sector_no)
    \/ \E m \in MsfMinutes, sec \in MsfSeconds, f \in MsfFrames :
          SectorNumberRoundTrip(<<m, sec, f>>)
    \/ \E m_bcd \in BcdBytes, s_bcd \in BcdBytes, f_bcd \in BcdBytes :
          FromBcdValuesCall(m_bcd, s_bcd, f_bcd)
    \/ \E m_bcd \in BcdBytes, s_bcd \in BcdBytes, f_bcd \in BcdBytes :
          BcdRoundTrip(m_bcd, s_bcd, f_bcd)

SpecIndex == InitIndex /\ [][NextIndex]_vars

(***************************************************************************)
(* MsfIndex arithmetic (msf_index.rs).  MsfIndex::new and to_sectors of    *)
(* that file read as MsfNew and ToSectorNumber do.  An operation yields    *)
(* the set of its possible outcomes: where an 8-bit addition overflows, a  *)
(* build with overflow checks panics and a build without them wraps.       *)
(***************************************************************************)

(* MsfIndex::to_sectors *)
ToSectors(x) == x[1] * 60 * 75 + x[2] * 75 + x[3]

(* Mutant of MsfAdd: 75 frames are not carried into a second *)
MsfAddCarriesAbove75(a, b) ==
    LET m0 == a[1] + b[1]
        s0 == a[2] + b[2]
        f0 == a[3] + b[3]
        carry_f == IF AsU8(f0) > 75 THEN AsU8(f0) \div 75 ELSE 0
        f1 == AsU8(f0) - carry_f * 75
        s1 == AsU8(s0) + carry_f
        s2 == AsU8(s1) % 60
        m1 == AsU8(m0) + (AsU8(s1) \div 60)
        x == MsfNew(AsU8(m1), s2, f1)
    IN  {[res |-> IF x = None THEN "MsfOverflow" ELSE "Ok", val |-> x]}

(* impl Add for MsfIndex: the two while loops take the frames modulo 75    *)
(* and the seconds modulo 60, adding one to the next field per round       *)
MsfAdd(a, b) ==
    LET m0 == a[1] + b[1]
        s0 == a[2] + b[2]
        f0 == a[3] + b[3]
        f1 == AsU8(f0) % 75
        s1 == AsU8(s0) + (AsU8(f0) \div 75)
        s2 == AsU8(s1) % 60
        m1 == AsU8(m0) + (AsU8(s1) \div 60)
        x == MsfNew(AsU8(m1), s2, f1)
        overflows == m0 > 255 \/ s0 > 255 \/ f0 > 255 \/ s1 > 255 \/ m1 > 255
    IN  {[res |-> IF x = None THEN "MsfOverflow" ELSE "Ok", val |-> x]}
        \cup (IF overflows THEN {[res |-> "panic", val |-> None]} ELSE {})

(* impl Sub for MsfIndex: i16 differences, one borrow per field, then the  *)
(* assertion and the `as u8` casts                                         *)
MsfSub(a, b) ==
    IF ToSectors(b) > ToSectors(a)
    THEN {[res |-> "MsfOverflow", val |-> None]}
    ELSE LET t0 == a[1] - b[1]
             t1 == a[2] - b[2]
             t2 == a[3] - b[3]
             f1 == IF t2 < 0 THEN t2 + 75 ELSE t2
             s1 == IF t2 < 0 THEN t1 - 1 ELSE t1
             s2 == IF s1 < 0 THEN s1 + 60 ELSE s1
             m1 == IF s1 < 0 THEN t0 - 1 ELSE t0
             x == MsfNew(AsU8(m1), AsU8(s2), AsU8(f1))
         IN  IF m1 < 0
             THEN {[res |-> "panic", val |-> None]}
             ELSE {[res |-> IF x = None THEN "MsfOverflow" ELSE "Ok", val |-> x]}

(* a + b *)
AddCall(a, b) ==
    /\ backend = "index"
    /\ \E o \in MsfAdd(a, b) :
          ret' = [op |-> "add", arg |-> Some(<<a, b>>), res |-> o.res, val |-> o.val]
    /\ UNCHANGED <<backend, cue, bin_files, location, nochd>>

(* a - b *)
SubCall(a, b) ==
    /\ backend = "index"
    /\ \E o \in MsfSub(a, b) :
          ret' = [op |-> "sub", arg |-> Some(<<a, b>>), res |-> o.res, val |-> o.val]
    /\ UNCHANGED <<backend, cue, bin_files, location, nochd>>

(* The valid MsfIndex values the model adds and subtracts *)
MsfValues ==
    { <<0, 0, 0>>, <<0, 0, 1>>, <<0, 0, 74>>, <<0, 1, 0>>, <<0, 59, 74>>, <<1, 0, 0>>,
      <<13, 37, 42>>, <<49, 59, 74>>, <<50, 0, 0>>, <<50, 30, 37>>, <<99, 0, 0>>,
      <<99, 59, 74>> }

(* MsfIndex::from_sectors: the seconds are the remainder divided by 60 *)
FromSectors(sectors) ==
    LET m == sectors \div (60 * 75)
        rest == sectors - m * 60 * 75
        s == rest \div 60
        f == rest - s * 60
    IN  MsfNew(AsU8(m), AsU8(s), AsU8(f))

(* MsfIndex::from_sectors(x.to_sectors()) *)
SectorsRoundTrip(x) ==
    IndexReturns("from_sectors(to_sectors)", x, FromSectors(ToSectors(x)))

SpecSectors ==
    InitIndex
    /\ [][\E m \in MsfMinutes, sec \in MsfSeconds, f \in MsfFrames :
              SectorsRoundTrip(<<m, sec, f>>)]_vars

NextMsf ==
    \/ \E a \in MsfValues, b \in MsfValues : AddCall(a, b)
    \/ \E a \in MsfValues, b \in MsfValues : SubCall(a, b)

SpecMsf == InitIndex /\ [][NextMsf]_vars

----------------------------------------------------------------------------
(* Cuesheet::_open (cue.rs): the loop over the lines of the cue file, one  *)
(* step per line, and the code after the loop.  `cue` holds the locals of  *)
(* _open, `bin_files` the bin files pushed so far and `ret` the result.    *)
(* A FILE line is the sector count of the bin file it opens, an INDEX line *)
(* its number and the LBA of its MSF value.  The lines are well formed     *)
(* apart from their numbers, and the files they name can be opened.        *)
(* overflow_checks tells whether the build panics on integer overflow      *)
(* (otherwise the result wraps).                                           *)

(* parse_track_line: the Track it makes *)
NewTrack == [index0 |-> None, index1 |-> None]

(* The locals of _open before the first line *)
ParseStart(overflow_checks) ==
    [pc |-> "lines", overflow_checks |-> overflow_checks, wrapped |-> FALSE,
     current_track_number |-> 0, current_bin_file |-> None, current_track |-> None,
     tracks_for_current_bin_file |-> << >>,
     lines_read |-> 0, files_seen |-> 0, tracks_since_file |-> 0,
     last |-> [cmd |-> "none", n |-> 0, prev |-> 0]]

(* The locals of _open after the lines FILE (a bin file of 6 sectors) and  *)
(* TRACK 1 .. TRACK 254, each followed by INDEX 01 00:00:00                 *)
ParsedPrefix(overflow_checks) ==
    [pc |-> "lines", overflow_checks |-> overflow_checks, wrapped |-> FALSE,
     current_track_number |-> 254, current_bin_file |-> Some(6),
     current_track |-> Some([index0 |-> None, index1 |-> Some(0)]),
     tracks_for_current_bin_file |-> [i \in 1..253 |-> [index0 |-> None, index1 |-> Some(0)]],
     lines_read |-> 0, files_seen |-> 1, tracks_since_file |-> 254,
     last |-> [cmd |-> "INDEX", n |-> 1, prev |-> 254]]

(* BinFile::finalize_tracks: the result, and whether an unsigned           *)
(* subtraction has wrapped.  The loop stops at the first pair of tracks    *)
(* one of which has no index 1 and, in a build with overflow checks, at    *)
(* the first pair whose first index values decrease; the code after the    *)
(* loop unwraps the first index of the last track.                         *)
FinalizeChecked(ts, bin_num_sectors, overflow_checks, wrapped) ==
    LET first_index_lba(t) == IF t.index0 # None THEN t.index0[1] ELSE t.index1[1]
        pairs == 1..(Len(ts) - 1)
        without_index_01 == {i \in pairs : ts[i].index1 = None \/ ts[i + 1].index1 = None}
        underflows == {i \in pairs \ without_index_01 :
                          first_index_lba(ts[i + 1]) < first_index_lba(ts[i])}
        stops == without_index_01 \cup (IF overflow_checks THEN underflows ELSE {})
        stop == CHOOSE i \in stops : \A j \in stops : i <= j
        last_track == ts[Len(ts)]
    IN  IF Len(ts) = 0 THEN [res |-> "NoTracks", wrapped |-> wrapped]
        ELSE IF stops # {}
        THEN [res |-> IF stop \in without_index_01 THEN "TrackWithoutIndex01" ELSE "panic",
              wrapped |-> wrapped \/ \E i \in underflows : i < stop]
        ELSE IF last_track.index0 = None /\ last_track.index1 = None
        THEN [res |-> "panic", wrapped |-> wrapped \/ underflows # {}]
        ELSE IF bin_num_sectors < first_index_lba(last_track)
        THEN IF overflow_checks
             THEN [res |-> "panic", wrapped |-> wrapped \/ underflows # {}]
             ELSE [res |-> "Ok", wrapped |-> TRUE]
        ELSE [res |-> "Ok", wrapped |-> wrapped \/ underflows # {}]

(* _open returns: on an error the bin files built so far are dropped *)
OpenReturns(d, res, locals) ==
    /\ cue' = [locals EXCEPT !.pc = "done", !.last = d, !.lines_read = cue.lines_read + 1]
    /\ ret' = [op |-> "open", arg |-> None, res |-> res, val |-> None]
    /\ UNCHANGED <<backend, location, nochd>>

(* _open goes on to the next line *)
NextLine(d, locals) ==
    /\ cue' = [locals EXCEPT !.last = d, !.lines_read = cue.lines_read + 1]
    /\ UNCHANGED <<backend, location, ret, nochd>>

(* tracks_for_current_bin_file after `if let Some(track) = current_track   *)
(* { tracks_for_current_bin_file.push(track) }`                            *)
PushedTracks ==
    cue.tracks_for_current_bin_file \o cue.current_track

(* Mutant of ParseFile: current_track outlives the FILE line *)
ParseFileKeepsTrack(sectors) ==
    LET d == [cmd |-> "FILE", n |-> sectors, prev |-> cue.current_track_number]
        o == FinalizeChecked(PushedTracks, cue.current_bin_file[1],
                             cue.overflow_checks, cue.wrapped)
        opened == [cue EXCEPT !.current_bin_file = Some(sectors),
                              !.files_seen = cue.files_seen + 1,
                              !.tracks_since_file = 0]
    IN  /\ backend = "parse"
        /\ cue.pc = "lines"
        /\ IF cue.current_bin_file = None
           THEN NextLine(d, opened) /\ UNCHANGED bin_files
           ELSE IF o.res # "Ok"
           THEN OpenReturns(d, o.res, cue) /\ bin_files' = << >>
           ELSE /\ NextLine(d, [opened EXCEPT !.tracks_for_current_bin_file = << >>,
                                              !.wrapped = o.wrapped])
                /\ bin_files' = Append(bin_files, [sectors |-> cue.current_bin_file[1],
                                                   tracks |-> PushedTracks])

(* A FILE line *)
ParseFile(sectors) ==
    LET d == [cmd |-> "FILE", n |-> sectors, prev |-> cue.current_track_number]
        o == FinalizeChecked(PushedTracks, cue.current_bin_file[1],
                             cue.overflow_checks, cue.wrapped)
        opened == [cue EXCEPT !.current_bin_file = Some(sectors),
                              !.files_seen = cue.files_seen + 1,
                              !.tracks_since_file = 0]
    IN  /\ backend = "parse"
        /\ cue.pc = "lines"
        /\ IF cue.current_bin_file = None
           THEN NextLine(d, opened) /\ UNCHANGED bin_files
           ELSE IF o.res # "Ok"
           THEN OpenReturns(d, o.res, cue) /\ bin_files' = << >>
           ELSE /\ NextLine(d, [opened EXCEPT !.current_track = None,
                                              !.tracks_for_current_bin_file = << >>,
                                              !.wrapped = o.wrapped])
                /\ bin_files' = Append(bin_files, [sectors |-> cue.current_bin_file[1],
                                                   tracks |-> PushedTracks])

(* A TRACK line; its number is parsed as a u8 and current_track_number + 1 *)
(* is a u8 addition                                                        *)
ParseTrack(track_number) ==
    LET d == [cmd |-> "TRACK", n |-> track_number, prev |-> cue.current_track_number]
        next == cue.current_track_number + 1
    IN  /\ backend = "parse"
        /\ cue.pc = "lines"
        /\ IF cue.current_bin_file = None
           THEN OpenReturns(d, "TrackCommandWithoutBinFile", cue) /\ bin_files' = << >>
           ELSE IF track_number > 255
           THEN OpenReturns(d, "ParseIntError", cue) /\ bin_files' = << >>
           ELSE IF next > 255 /\ cue.overflow_checks
           THEN OpenReturns(d, "panic", cue) /\ bin_files' = << >>
           ELSE IF track_number # AsU8(next)
           THEN OpenReturns(d, "InvalidTrackNumber", cue) /\ bin_files' = << >>
           ELSE /\ NextLine(d, [cue EXCEPT !.tracks_for_current_bin_file = PushedTracks,
                                           !.current_track_number = track_number,
                                           !.current_track = Some(NewTrack),
                                           !.tracks_since_file = cue.tracks_since_file + 1])
                /\ UNCHANGED bin_files

(* An INDEX line; an index other than 0 and 1 is stored and never read *)
ParseIndex(index_number, lba) ==
    LET d == [cmd |-> "INDEX", n |-> index_number, prev |-> cue.current_track_number]
        track == cue.current_track[1]
    IN  /\ backend = "parse"
        /\ cue.pc = "lines"
        /\ IF cue.current_track = None
           THEN OpenReturns(d, "IndexCommandWithoutTrack", cue) /\ bin_files' = << >>
           ELSE IF index_number = 0
           THEN IF track.index0 # None
                THEN OpenReturns(d, "InvalidIndexNumber", cue) /\ bin_files' = << >>
                ELSE /\ NextLine(d, [cue EXCEPT !.current_track =
                                                   Some([track EXCEPT !.index0 = Some(lba)])])
                     /\ UNCHANGED bin_files
           ELSE /\ NextLine(d, IF index_number = 1
                               THEN [cue EXCEPT !.current_track =
                                                   Some([track EXCEPT !.index1 = Some(lba)])]
                               ELSE cue)
                /\ UNCHANGED bin_files

(* A PREGAP, FLAGS, CDTEXTFILE, CATALOG, PERFORMER, TITLE, ISRC or REM line *)
ParseIgnored ==
    /\ backend = "parse"
    /\ cue.pc = "lines"
    /\ NextLine([cmd |-> "REM", n |-> 0, prev |-> cue.current_track_number], cue)
    /\ UNCHANGED bin_files

(* A line with any other first word *)
ParseInvalidCommand ==
    /\ backend = "parse"
    /\ cue.pc = "lines"
    /\ OpenReturns([cmd |-> "other", n |-> 0, prev |-> cue.current_track_number],
                   "InvalidCommandError", cue)
    /\ bin_files' = << >>

(* The end of the cue file.  The SBI file next to it changes neither the   *)
(* result nor the bin files.                                               *)
ParseEnd ==
    LET d == [cmd |-> "end", n |-> 0, prev |-> cue.current_track_number]
        o == FinalizeChecked(PushedTracks, cue.current_bin_file[1],
                             cue.overflow_checks, cue.wrapped)
    IN  /\ backend = "parse"
        /\ cue.pc = "lines"
        /\ IF cue.current_bin_file = None
           THEN OpenReturns(d, "NoBinFiles", cue) /\ bin_files' = << >>
           ELSE IF cue.current_track = None
           THEN OpenReturns(d, "NoTracks", cue) /\ bin_files' = << >>
           ELSE IF o.res # "Ok"
           THEN OpenReturns(d, o.res, cue) /\ bin_files' = << >>
           ELSE /\ OpenReturns(d, "Ok", [cue EXCEPT !.wrapped = o.wrapped])
                /\ bin_files' = Append(bin_files, [sectors |-> cue.current_bin_file[1],
                                                   tracks |-> PushedTracks])

InitParse ==
    /\ backend = "parse"
    /\ \E overflow_checks \in BOOLEAN :
          cue \in {ParseStart(overflow_checks), ParsedPrefix(overflow_checks)}
    /\ bin_files = << >>
    /\ location = DefaultLocation
    /\ disc = NoDisc
    /\ tracks = << >>
    /\ InitImage

(* The lines: bin files of 0, 3 and 6 sectors, track numbers at both ends  *)
(* of the u8 range and one beyond it, index numbers 0, 1 and 2, index      *)
(* values 00:00:00, 00:00:02 and 00:00:05                                  *)
NextParse ==
    \/ \E sectors \in {0, 3, 6} : cue.lines_read < MaxCueLines /\ ParseFile(sectors)
    \/ \E track_number \in {0, 1, 2, 3, 255, 256} :
          cue.lines_read < MaxCueLines /\ ParseTrack(track_number)
    \/ \E index_number \in {0, 1, 2}, lba \in {0, 2, 5} :
          cue.lines_read < MaxCueLines /\ ParseIndex(index_number, lba)
    \/ cue.lines_read < MaxCueLines /\ ParseIgnored
    \/ cue.lines_read < MaxCueLines /\ ParseInvalidCommand
    \/ ParseEnd

SpecParse == InitParse /\ [][NextParse]_vars

----------------------------------------------------------------------------
(* load_sbi_file (sbi.rs).  `cue` holds the bytes of the SBI file and      *)
(* `ret` the result of loading it.                                         *)

(* The files the model loads: every prefix of a file made of 4 magic       *)
(* bytes and up to two records, a record being 3 address bytes, a mode     *)
(* byte and 10 bytes (mode 1) or 3 bytes of payload.  The payload bytes    *)
(* read as the header of a record when they are taken for one.             *)
SbiFiles ==
    LET payload(mode) == IF mode = 1 THEN <<1, 1, 1, 1, 1, 1, 1, 1, 1, 1>> ELSE <<1, 1, 1>>
        records == { msf \o <<mode>> \o payload(mode) :
                        msf \in {<<0, 2, 0>>, <<18, 52, 86>>, <<10, 0, 0>>},
                        mode \in {0, 1, 2, 3, 4, 255} } \cup {<< >>}
        whole == { magic \o r1 \o r2 :
                      magic \in {<<83, 66, 73, 0>>, <<83, 66, 74, 0>>},
                      r1 \in records, r2 \in records }
    IN  UNION { { SubSeq(w, 1, n) : n \in 0..Len(w) } : w \in whole }

(* Mutant of LoadFrom: a record of mode 1 is taken to be as long as one of *)
(* mode 2 or 3                                                             *)
RECURSIVE LoadFromShortModeOne(_, _, _)
LoadFromShortModeOne(sbi_data, index, invalid_subq_lbas) ==
    IF ~(index + 3 < Len(sbi_data))
    THEN [res |-> "Ok", val |-> Some(invalid_subq_lbas)]
    ELSE LET msf == FromBcdValues(sbi_data[index + 1], sbi_data[index + 2],
                                  sbi_data[index + 3])
             mode == sbi_data[index + 4]
         IN  IF msf = None THEN [res |-> "MsfParseError", val |-> None]
             ELSE IF mode <= 3
             THEN LoadFromShortModeOne(sbi_data, index + 4 + 3,
                                       invalid_subq_lbas \cup {MsfToLba(msf[1])})
             ELSE [res |-> "InvalidMode", val |-> None]

(* load_sbi_file, the while loop from `index` on (sbi_data[i] of the code  *)
(* is sbi_data[i + 1] here)                                                *)
RECURSIVE LoadFrom(_, _, _)
LoadFrom(sbi_data, index, invalid_subq_lbas) ==
    IF ~(index + 3 < Len(sbi_data))
    THEN [res |-> "Ok", val |-> Some(invalid_subq_lbas)]
    ELSE LET msf == FromBcdValues(sbi_data[index + 1], sbi_data[index + 2],
                                  sbi_data[index + 3])
             mode == sbi_data[index + 4]
         IN  IF msf = None THEN [res |-> "MsfParseError", val |-> None]
             ELSE IF mode = 1
             THEN LoadFrom(sbi_data, index + 4 + 10,
                           invalid_subq_lbas \cup {MsfToLba(msf[1])})
             ELSE IF mode <= 3
             THEN LoadFrom(sbi_data, index + 4 + 3,
                           invalid_subq_lbas \cup {MsfToLba(msf[1])})
             ELSE [res |-> "InvalidMode", val |-> None]

(* load_sbi_file *)
LoadSbiFile ==
    LET sbi_data == cue
        r == IF Len(sbi_data) < 4 \/ SubSeq(sbi_data, 1, 4) # <<83, 66, 73, 0>>
             THEN [res |-> "NotAnSbiFile", val |-> None]
             ELSE LoadFrom(sbi_data, 4, {})
    IN  /\ backend = "sbi"
        /\ ret = NoRet
        /\ ret' = [op |-> "load_sbi_file", arg |-> None, res |-> r.res, val |-> r.val]
        /\ UNCHANGED <<backend, cue, bin_files, location, nochd>>

InitSbi ==
    /\ backend = "sbi"
    /\ cue \in SbiFiles
    /\ bin_files = << >>
    /\ location = DefaultLocation
    /\ disc = NoDisc
    /\ tracks = << >>
    /\ InitImage

SpecSbi == InitSbi /\ [][LoadSbiFile]_vars

----------------------------------------------------------------------------
(* ChdImage::open_with_parents_recursively (chd.rs).  `cue` holds the CHD  *)
(* files on disk (for each path the SHA-1 and the parent SHA-1 of its      *)
(* header), the candidate list, the arguments of the innermost call and    *)
(* the paths of the calls so far; `ret` holds the result.  Every caller    *)
(* hands the result of the call it makes on with `?` and Chd::open, so the *)
(* result of the innermost call is the result of the whole; Chd::open is   *)
(* the codec's and is taken to succeed.                                    *)

(* The headers of the files: sha1 is "unreadable" when the header cannot   *)
(* be read and "none" when it has no SHA-1; parent_sha1 is "no_parent"     *)
(* when has_parent() is false and "none" when the header has a parent but  *)
(* no parent SHA-1                                                         *)
ChdHeaders ==
    { h \in [sha1 : {"unreadable", "none", "a", "b"},
             parent_sha1 : {"no_parent", "none", "a", "b"}] :
         h.sha1 = "unreadable" => h.parent_sha1 = "no_parent" }

(* The candidate lists: up to two of the three paths, in any order and     *)
(* with repetition                                                         *)
CandidateLists == UNION { [1..n -> 1..3] : n \in 0..2 }

(* Mutant of FirstMatch: the last matching candidate *)
FirstMatchTakesLast(files, possible_parents, parent_sha1) ==
    LET matches == {i \in 1..Len(possible_parents) :
                       files[possible_parents[i]].sha1 = parent_sha1}
    IN  IF matches = {} THEN None
        ELSE Some(possible_parents[CHOOSE i \in matches : \A j \in matches : j <= i])

(* The loop over possible_parents: the first candidate whose header has    *)
(* the SHA-1 parent_sha1 (an "a" or "b"), or None                          *)
FirstMatch(files, possible_parents, parent_sha1) ==
    LET matches == {i \in 1..Len(possible_parents) :
                       files[possible_parents[i]].sha1 = parent_sha1}
    IN  IF matches = {} THEN None
        ELSE Some(possible_parents[CHOOSE i \in matches : \A j \in matches : i <= j])

(* One call of open_with_parents_recursively(path, possible_parents, depth) *)
OpenWithParentsRecursively ==
    LET header == cue.files[cue.path]
        p == FirstMatch(cue.files, cue.possible_parents, header.parent_sha1)
        returns(res) ==
            /\ cue' = [cue EXCEPT !.pc = "done"]
            /\ ret' = [op |-> "open_with_parents_recursively", arg |-> Some(cue.chain[1]),
                       res |-> res, val |-> None]
    IN  /\ backend = "parents"
        /\ cue.pc = "call"
        /\ IF cue.depth >= 10 THEN returns("RecursionDepthExceeded")
           ELSE IF header.sha1 = "unreadable" THEN returns("ChdError")
           ELSE IF header.parent_sha1 = "no_parent" THEN returns("Ok")
           ELSE IF header.parent_sha1 = "none" THEN returns("UnsupportedChdVersion")
           ELSE IF p = None THEN returns("ParentNotFound")
           ELSE /\ cue' = [cue EXCEPT !.path = p[1], !.depth = cue.depth + 1,
                                      !.chain = Append(cue.chain, p[1])]
                /\ UNCHANGED ret
        /\ UNCHANGED <<backend, bin_files, location, nochd>>

InitParents ==
    /\ backend = "parents"
    /\ \E files \in [1..3 -> ChdHeaders], possible_parents \in CandidateLists :
          cue = [files |-> files, possible_parents |-> possible_parents,
                 path |-> 1, depth |-> 0, chain |-> <<1>>, pc |-> "call"]
    /\ bin_files = << >>
    /\ location = DefaultLocation
    /\ disc = NoDisc
    /\ tracks = << >>
    /\ InitImage

SpecParents ==
    InitParents /\ [][OpenWithParentsRecursively]_vars /\ WF_vars(OpenWithParentsRecursively)

----------------------------------------------------------------------------
(* Properties of both backends                                             *)

(* Image::current_global_msf as an LBA *)
CurrentLba == IF backend = "chd" THEN current_lba ELSE location.global_lba

(* Image::current_track *)
CurrentTrackNo ==
    IF backend = "chd" THEN current_track + 1 ELSE CueCurrentTrack(location)

(* The disc length that track_start(0) reports, as an LBA *)
DiscLength == IF backend = "chd" THEN ChdTrackStart(0) ELSE CueTrackStart(0)

(* The LBA of the last sector of the disc: of the last track of a CHD, of  *)
(* the last bin file of a cue sheet                                        *)
LastSector ==
    IF backend = "chd"
    THEN tracks[Len(tracks)].start_lba + tracks[Len(tracks)].frames - 1
    ELSE 150 + SectorsBefore(Len(bin_files)) - 1

(* C6 as claimed: set_location(l) with l below the disc length that        *)
(* track_start(0) reports succeeds, and current_global_msf().to_lba() is l *)
(* afterwards, in both backends.                                           *)
C6_Original ==
    (mpc = "idle" /\ ret.op = "set_location" /\ ret.arg[1] < DiscLength)
        => /\ ret.res = "Ok"
           /\ MsfFromLba(CurrentLba) # None
           /\ MsfToLba(MsfFromLba(CurrentLba)[1]) = ret.arg[1]

(* C7 as claimed: an advance_position made at a position of the disc       *)
(* returns TrackChange exactly when current_track() is not what it was     *)
(* before the call, EndOfDisc exactly when the call was made at the last   *)
(* sector of the disc, and None otherwise, in both backends.               *)
C7_Original ==
    (mpc = "idle" /\ ret.op = "advance_position" /\ CurrentLba - 1 <= LastSector)
        => /\ ret.val[1] \in {"TrackChange", "EndOfDisc", "None"}
           /\ (ret.val[1] = "TrackChange") <=> (CurrentTrackNo # ret.arg[1])
           /\ (ret.val[1] = "EndOfDisc") <=> (CurrentLba - 1 = LastSector)

----------------------------------------------------------------------------
(* Properties of the CHD backend                                           *)

(* The track (counting from 1) whose [start_lba, start_lba + frames)       *)
(* contains lba, or 0 when no track does                                   *)
TrackOf(lba) ==
    IF \E t \in 1..Len(tracks) : InTrack(tracks[t], lba)
    THEN CHOOSE t \in 1..Len(tracks) : InTrack(tracks[t], lba)
    ELSE 0

(* The single-threaded reference decode of the sector at disc LBA lba *)
ReferenceSector(lba) ==
    LET t == tracks[TrackOf(lba)]
        file_lba == lba + t.padding_offset - FIRST_TRACK_PREGAP
    IN  [hunk |-> file_lba \div sectors_per_hunk,
         sector |-> file_lba % sectors_per_hunk,
         swapped |-> (t.track_type = "Audio")]

CopyReturnedOk ==
    mpc = "idle" /\ ret.op = "copy_current_sector" /\ ret.res = "Ok"

(* C1: a copy_current_sector that returns Ok at a disc LBA l >= 150 has    *)
(* copied the sector a single-threaded reference decode gives: sector      *)
(* (l + padding_offset - 150) mod sectors_per_hunk of hunk                 *)
(* (l + padding_offset - 150) div sectors_per_hunk, byte pairs swapped     *)
(* exactly on an Audio track, whatever the worker did in between.          *)
C1_CopyReturnsReferenceSector ==
    (CopyReturnedOk /\ current_lba >= FIRST_TRACK_PREGAP)
        => /\ TrackOf(current_lba) # 0
           /\ ret.val = Some(ReferenceSector(current_lba))

(* C1 witness: a copy on the Audio track, behind the padding, returned Ok  *)
(* with the bytes of a hunk the worker had to read.                        *)
C1_Witness ==
    /\ CopyReturnedOk
    /\ current_lba >= FIRST_TRACK_PREGAP
    /\ ret.val[1].swapped
    /\ ret.val[1].hunk = 2
    /\ CacheContains(hunk_cache, 2)

HunkNos(s) == [i \in 1..Len(s) |-> s[i].hunk_no]

IsReadHunk(cmd) == cmd.kind = "ReadHunk"

(* The ReadHunk commands and their results on the way between the two      *)
(* threads, oldest first: completions sent, the ReadHunk the worker is     *)
(* reading for, the deferred command, the command channel                  *)
InFlight ==
    HunkNos(completion_chan)
    \o (IF IsReadHunk(wcmd) /\ wi = 0 /\ wpc \in {"check", "put", "send"}
        THEN <<wcmd.hunk_no>> ELSE << >>)
    \o HunkNos(SelectSeq(cmd_while_prefetching, IsReadHunk))
    \o HunkNos(SelectSeq(cmd_chan, IsReadHunk))

(* C2: at most one ReadHunk is posted and not yet answered to the main     *)
(* thread (hunk_read_pending says whether one is), and the results reach   *)
(* the main thread in the order the ReadHunks were posted: what is on the  *)
(* way is exactly the posted, unanswered ReadHunks, oldest first.          *)
C2_OneOutstandingInOrder ==
    /\ Len(outstanding) <= 1
    /\ hunk_read_pending <=> (outstanding # << >>)
    /\ InFlight = HunkNos(outstanding)

(* C2 witness: a ReadHunk was posted and answered, and read_hunk is about  *)
(* to clear that completion before it posts the next command.              *)
C2_Witness ==
    /\ mpc = "read_hunk_drain"
    /\ completion_chan # << >>
    /\ Len(outstanding) = 1
    /\ completion_chan[1].hunk_no = outstanding[1].hunk_no

(* C3: after copy_current_sector received Ok(h), h equals current_hunk_no  *)
(* and h is in the cache until the main thread has looked it up, whatever  *)
(* the worker does meanwhile; neither assert_eq!(current_hunk_no,          *)
(* Some(hunk_no)) nor the "Hunk not in cache" expect fails.                *)
C3_CompletedHunkIsCached ==
    /\ mpc # "panicked"
    /\ mpc = "copy_get" => /\ CacheContains(hunk_cache, mctx.hunk_no)
                           /\ current_hunk_no = Some(mctx.hunk_no)

(* C3 witness: the main thread holds Ok(h) and has not looked h up yet,    *)
(* while the worker is about to insert another hunk into the full cache.   *)
C3_Witness ==
    /\ mpc = "copy_get"
    /\ wpc = "put"
    /\ Len(hunk_cache) = CACHE_CAPACITY

(* C4 as claimed: between public calls current_hunk_no = Some(h) if and    *)
(* only if the buffer `hunk` holds the bytes of hunk h.                    *)
C4_Original ==
    mpc = "idle" => current_hunk_no = Some(hunk)

(* C4 amended: between public calls, current_hunk_no = Some(h) with no     *)
(* hunk read pending implies that the buffer holds the bytes of hunk h.    *)
C4_BufferHoldsCurrentHunkUnlessPending ==
    (mpc = "idle" /\ current_hunk_no # None /\ ~hunk_read_pending)
        => current_hunk_no = Some(hunk)

(* C4 witness: between calls the buffer holds a hunk that came out of the  *)
(* cache, and current_hunk_no names it.                                    *)
C4_Witness ==
    /\ mpc = "idle"
    /\ ~hunk_read_pending
    /\ current_hunk_no = Some(hunk)
    /\ hunk = 2

(* C5 as claimed: between public calls current_track is the track whose    *)
(* [start_lba, start_lba + frames) contains current_lba, or 0 when         *)
(* current_lba < 150, also after calls that returned OutOfRange or         *)
(* EndOfDisc.                                                              *)
C5_Original ==
    mpc = "idle" =>
        IF current_lba < FIRST_TRACK_PREGAP
        THEN current_track = 0
        ELSE InTrack(tracks[current_track + 1], current_lba)

ChdCopyFailed ==
    mpc = "idle" /\ ret.op = "copy_current_sector" /\ ret.res = "ChdError"

(* The main thread is inside the copy_current_sector that directly follows *)
(* one that failed with a codec error                                      *)
InRetry == mctx.op = "copy_current_sector" /\ mctx.prev = "ChdError"

ReadHunkDone == wpc = "send" /\ IsReadHunk(wcmd)

(* C9 as claimed: a ReadHunk(h) posted after a PrefetchHunk(h) was posted  *)
(* is completed without the codec being called for hunk h.                 *)
C9_Original ==
    (ReadHunkDone /\ outstanding[Len(completion_chan) + 1].advised) => ~decompressed

(* C9 amended: a ReadHunk(h) that the worker takes up while hunk h is in   *)
(* the cache (where a PrefetchHunk(h) that was carried out has put it) is  *)
(* completed with Ok(h) without the codec being called.                    *)
C9_CachedReadHunkNotDecompressed ==
    [][(wpc = "check" /\ IsReadHunk(wcmd) /\ wi = 0
            /\ CacheContains(hunk_cache, wcmd.hunk_no))
        => /\ wpc' \in {"check", "send"}
           /\ wpc' = "send" => (wres' = OkResult(wcmd.hunk_no) /\ ~decompressed')]_vars

(* C9 witness: a ReadHunk(h) posted after a PrefetchHunk(h) is completed   *)
(* with Ok(h) and the codec was not called for it.                         *)
C9_Witness ==
    /\ ReadHunkDone
    /\ outstanding[Len(completion_chan) + 1].advised
    /\ wres = OkResult(wcmd.hunk_no)
    /\ ~decompressed

(* C10 as claimed: an insertion of the readahead / prefetch loop, one of   *)
(* the first CACHE_CAPACITY - 1 of its burst, never evicts                 *)
(* last_requested_hunk, whatever the main thread looked up in between.     *)
C10_Original ==
    [][(/\ wpc = "put"
        /\ ~(IsReadHunk(wcmd) /\ wi = 0)
        /\ burst_inserts < CACHE_CAPACITY - 1
        /\ CacheContains(hunk_cache, last_requested_hunk))
        => CacheContains(hunk_cache', last_requested_hunk)]_vars

----------------------------------------------------------------------------
(* C11: once the ChdImage is dropped, the worker thread eventually leaves  *)
(* the loop of ChdThread::run, whatever it was doing at the drop: blocked  *)
(* in recv(), inside a readahead or prefetch loop, holding a deferred      *)
(* command, with commands still queued, or about to send a completion.     *)
C11_WorkerExitsAfterDrop == (mpc = "dropped") ~> (wpc = "exited")

(* The worker has exited after a drop that found it with work in hand *)
C11_Witness ==
    /\ mpc = "dropped" /\ wpc = "exited"
    /\ hunk_read_pending
    /\ Len(hunk_cache) = CACHE_CAPACITY

----------------------------------------------------------------------------
(* C12: Cuesheet::set_location and copy_current_sector                     *)

(* The bin file (counted from 0) that holds sector n of the disc, the bin  *)
(* files laid end to end                                                   *)
BinOfSector(n) ==
    CHOOSE b \in 0..(Len(bin_files) - 1) :
        SectorsBefore(b) <= n /\ n < SectorsBefore(b + 1)

(* Track i (counted from 0) of the TRACK lines ts holds bin-local sector   *)
(* o: from its first index up to the next track's first index              *)
TrackHolds(ts, i, o) ==
    /\ FirstIndexLba(ts[i + 1]) <= o
    /\ (i + 1 < Len(ts) => o < FirstIndexLba(ts[i + 2]))

(* The location the claim gives for LBA l *)
LocationIsOf(loc, l) ==
    LET b == BinOfSector(l - 150)
        o == l - 150 - SectorsBefore(b)
    IN  /\ loc.bin_file_no = b
        /\ loc.bin_local_lba = o
        /\ loc.global_lba = l
        /\ loc.track_in_bin \in 0..(Len(cue[b + 1].tracks) - 1)
        /\ TrackHolds(cue[b + 1].tracks, loc.track_in_bin, o)

CueInRange(l) == l >= 150 /\ l - 150 < SectorsBefore(Len(bin_files))

(* C12 as claimed: set_location(l) succeeds for every l >= 150 inside the  *)
(* bin files and selects the bin file, the bin-local LBA and the track of  *)
(* that sector; copy_current_sector then returns the sector at that offset *)
(* of that bin file; for every larger l set_location returns OutOfRange.   *)
C12_Original ==
    /\ (backend = "cue" /\ ret.op = "set_location" /\ CueInRange(ret.arg[1]))
          => (ret.res = "Ok" /\ LocationIsOf(location, ret.arg[1]))
    /\ (backend = "cue" /\ ret.op = "set_location"
          /\ ret.arg[1] - 150 >= SectorsBefore(Len(bin_files)))
          => ret.res = "OutOfRange"
    /\ (backend = "cue" /\ ret.op = "copy_current_sector"
          /\ CueInRange(location.global_lba))
          => /\ ret.res = "Ok"
             /\ LET b == BinOfSector(location.global_lba - 150)
                IN  ret.val = Some(BinSector(b, location.global_lba - 150
                                                - SectorsBefore(b)))

----------------------------------------------------------------------------
(* C13: Cuesheet::track_start                                              *)

(* Track i of bin file b (both counted from 1) is track n of the disc *)
IsTrackNo(b, i, n) == TracksBefore(b - 1) + i = n

(* C13: track_start(n) for n in 1..=num_tracks() is 150 + the sectors of   *)
(* the bin files before the one that holds track n + the bin-local LBA of  *)
(* the track's INDEX 01; track_start(0) is 150 + the sectors of all bin    *)
(* files.                                                                  *)
C13_TrackStartIsIndexOneOnDisc ==
    (backend = "cue" /\ ret.op = "track_start"
       /\ ret.arg[1] <= TracksBefore(Len(bin_files)))
    => /\ ret.res = "Ok"
       /\ IF ret.arg[1] = 0
          THEN MsfToLba(ret.val[1]) = 150 + SectorsBefore(Len(bin_files))
          ELSE \E b \in 1..Len(cue) : \E i \in 1..Len(cue[b].tracks) :
                  /\ IsTrackNo(b, i, ret.arg[1])
                  /\ MsfToLba(ret.val[1])
                       = 150 + SectorsBefore(b - 1) + cue[b].tracks[i].index1

(* track_start has returned the start of the last track of a second bin    *)
(* file, a track with an INDEX 00                                          *)
C13_Witness ==
    /\ backend = "cue" /\ ret.op = "track_start" /\ ret.res = "Ok"
    /\ Len(cue) = 2 /\ Len(cue[2].tracks) = 2
    /\ ret.arg[1] = TracksBefore(Len(bin_files))
    /\ cue[2].tracks[2].index0 # None

----------------------------------------------------------------------------
(* C14: set_location_to_track past the last track                          *)

(* Image::num_tracks *)
NumTracks == IF backend = "chd" THEN Len(tracks) ELSE TracksBefore(Len(bin_files))

(* C14: in both backends set_location_to_track(t) with t > num_tracks()    *)
(* returns OutOfRange and does not panic.                                  *)
C14_TrackPastLastIsOutOfRange ==
    /\ (mpc \in {"idle", "panicked"} /\ ret.op = "set_location_to_track" /\ ret.arg[1] > NumTracks)
         => ret.res = "OutOfRange"
    /\ (mpc \notin {"idle", "panicked"} /\ mctx.op = "set_location_to_track")
         => mctx.old_track <= NumTracks

(* set_location_to_track(num_tracks() + 1) has returned OutOfRange from a  *)
(* position in the last track, which it left alone                         *)
C14_Witness ==
    /\ mpc = "idle" /\ ret.op = "set_location_to_track"
    /\ ret.arg[1] = NumTracks + 1 /\ ret.res = "OutOfRange"
    /\ CurrentTrackNo = NumTracks

----------------------------------------------------------------------------
(* C15, C16, C17: current_index and current_track_local_msf                *)

(* The position is in the first track's virtual pregap or on a sector of   *)
(* the current track                                                       *)
PositionValid ==
    IF backend = "chd"
    THEN current_lba < FIRST_TRACK_PREGAP \/ InTrack(tracks[current_track + 1], current_lba)
    ELSE location.global_lba < 150 \/ CueInRange(location.global_lba)

(* The LBA of INDEX 01 of the current track, as track_start reports it *)
Index01Lba ==
    IF backend = "chd" THEN ChdTrackStart(current_track + 1)
    ELSE CueTrackStart(CueCurrentTrack(location))

(* C15 as claimed: in both backends current_index() returns 1 exactly at   *)
(* and after INDEX 01 of the current track and 0 exactly before it.        *)
C15_Original ==
    (ret.op = "current_index" /\ PositionValid)
    => /\ ret.res = "Ok"
       /\ ret.val[1] = (IF CurrentLba >= Index01Lba THEN 1 ELSE 0)

(* C16 as claimed: in both backends current_track_local_msf() returns the  *)
(* MSF of 450000 - k at k >= 1 sectors before INDEX 01 of the current      *)
(* track, the first track's virtual pregap included, and the MSF of j at   *)
(* j >= 0 sectors after it.                                                *)
C16_Original ==
    (ret.op = "current_track_local_msf" /\ PositionValid)
    => /\ ret.res = "Ok"
       /\ MsfToLba(ret.val[1]) = (IF CurrentLba < Index01Lba
                                  THEN 100 * 60 * 75 - (Index01Lba - CurrentLba)
                                  ELSE CurrentLba - Index01Lba)

(* The pregap the convention gives track i (counted from 1) of a CHD whose *)
(* metadata has no PREGAP                                                  *)
ConventionPregap(i) ==
    IF tracks[i].pregap # None THEN tracks[i].pregap[1]
    ELSE IF i = 1 THEN 150 ELSE 0

(* C17 as claimed: for a CHD track without a PREGAP value track_start,     *)
(* current_track_local_msf and current_index work with a pregap of 150     *)
(* sectors for the first track and of 0 sectors for every other track.     *)
C17_Original ==
    /\ (backend = "chd" /\ ret.op = "track_start" /\ ret.arg[1] \in 1..Len(tracks)
          /\ tracks[ret.arg[1]].pregap = None)
        => /\ ret.res = "Ok"
           /\ MsfToLba(ret.val[1])
                = tracks[ret.arg[1]].start_lba + ConventionPregap(ret.arg[1])
    /\ (backend = "chd" /\ ret.op = "current_track_local_msf" /\ PositionValid
          /\ tracks[current_track + 1].pregap = None)
        => LET index01 == tracks[current_track + 1].start_lba
                            + ConventionPregap(current_track + 1)
           IN  /\ ret.res = "Ok"
               /\ MsfToLba(ret.val[1]) = (IF current_lba < index01
                                          THEN 100 * 60 * 75 - (index01 - current_lba)
                                          ELSE current_lba - index01)
    /\ (backend = "chd" /\ ret.op = "current_index" /\ PositionValid
          /\ current_lba >= FIRST_TRACK_PREGAP
          /\ tracks[current_track + 1].pregap = None)
        => /\ ret.res = "Ok"
           /\ ret.val[1] = (IF current_lba - tracks[current_track + 1].start_lba
                                  > ConventionPregap(current_track + 1)
                            THEN 1 ELSE 0)

----------------------------------------------------------------------------
(* C18: every valid MsfIndex x (m <= 99, s <= 59, f <= 74) satisfies       *)
(* from_sector_number(x.to_sector_number()) == Ok(x), and its sector       *)
(* number is below 450000.                                                 *)
C18_SectorNumberRoundTrip ==
    ret.op = "from_sector_number(to_sector_number)"
    => /\ ret.res = "Ok"
       /\ ret.val = ret.arg
       /\ ToSectorNumber(ret.arg[1]) < 450000

(* The round trip of 99:59:74, the largest MsfIndex *)
C18_Witness ==
    /\ ret.op = "from_sector_number(to_sector_number)"
    /\ ret.arg = Some(<<99, 59, 74>>)
    /\ ret.res = "Ok"

(* C19 as claimed: from_sector_number(n) is Ok only for n <= 449999 and    *)
(* is OutOfRangeError for every n >= 450000, also where the minute count   *)
(* does not fit in 8 bits.                                                 *)
C19_Original ==
    ret.op = "from_sector_number"
    => (ret.res = "Ok" <=> ret.arg[1] <= 449999)

(* Every nibble of the byte is a decimal digit *)
IsBcd(b) == b \div 16 <= 9 /\ b % 16 <= 9

(* The number a BCD byte stands for *)
BcdDecoded(b) == (b \div 16) * 10 + (b % 16)

(* C20: from_bcd_values(m, s, f) succeeds exactly when every nibble is at  *)
(* most 9 and the decoded minute, second and frame are at most 99, 59 and  *)
(* 74, and is OutOfRangeError otherwise; on success to_bcd_values of the   *)
(* result is the original triple.                                          *)
C20_BcdAcceptedIffValidAndRoundTrips ==
    /\ ret.op = "from_bcd_values"
        => LET b == ret.arg[1]
           IN  /\ ret.res = "Ok" <=>
                     /\ IsBcd(b[1]) /\ IsBcd(b[2]) /\ IsBcd(b[3])
                     /\ BcdDecoded(b[1]) <= 99
                     /\ BcdDecoded(b[2]) <= 59
                     /\ BcdDecoded(b[3]) <= 74
               /\ ret.res = "Ok" =>
                     ret.val = Some(<<BcdDecoded(b[1]), BcdDecoded(b[2]), BcdDecoded(b[3])>>)
    /\ (ret.op = "to_bcd_values(from_bcd_values)" /\ ret.res = "Ok")
        => ret.val = ret.arg

(* The round trip of (0x99, 0x59, 0x74) *)
C20_Witness ==
    /\ ret.op = "to_bcd_values(from_bcd_values)"
    /\ ret.arg = Some(<<153, 89, 116>>)
    /\ ret.res = "Ok"


(***************************************************************************)
(* C21: for valid MsfIndex a and b, a + b is Ok(c) with                    *)
(* c.to_sectors() = a.to_sectors() + b.to_sectors() when that sum is at    *)
(* most 449999 and Err(MsfOverflow) otherwise; a - b is Ok(c) with         *)
(* c.to_sectors() = a.to_sectors() - b.to_sectors() when b <= a and        *)
(* Err(MsfOverflow) otherwise; no 8-bit intermediate overflows and the     *)
(* assertion in sub never fails (no call panics).                          *)
(***************************************************************************)
C21_AddSubAreSectorArithmetic ==
    ret.op \in {"add", "sub"} =>
        LET a == ToSectors(ret.arg[1][1])
            b == ToSectors(ret.arg[1][2])
            c == IF ret.op = "add" THEN a + b ELSE a - b
        IN  IF 0 <= c /\ c <= 449999
            THEN ret.res = "Ok" /\ ToSectors(ret.val[1]) = c
            ELSE ret.res = "MsfOverflow"

(* An addition that carries frames into seconds and seconds into minutes *)
C21_Witness ==
    /\ ret.op = "add"
    /\ ret.arg = Some(<< <<0, 59, 74>>, <<0, 0, 1>> >>)
    /\ ret.res = "Ok"
    /\ ret.val = Some(<<1, 0, 0>>)


(***************************************************************************)
(* C22: the cue parser accepts a TRACK line only when its number is one    *)
(* more than the number of the previous TRACK line (1 for the first),      *)
(* counted across all FILE lines, and otherwise (a bin file being open and *)
(* the number being a u8) fails with InvalidTrackNumber; after a           *)
(* successful open num_tracks() is the number of the last TRACK line.      *)
(***************************************************************************)
C22_Original ==
    /\ (cue.last.cmd = "TRACK" /\ cue.pc = "lines") => cue.last.n = cue.last.prev + 1
    /\ ( /\ cue.last.cmd = "TRACK"
         /\ cue.pc = "done"
         /\ cue.current_bin_file # None
         /\ cue.last.n <= 255
         /\ cue.last.n # cue.last.prev + 1 ) => ret.res = "InvalidTrackNumber"
    /\ (cue.pc = "done" /\ ret.res = "Ok") =>
           TracksBefore(Len(bin_files)) = cue.current_track_number

(* The same for the TRACK lines that follow a track number below 255 *)
C22_Below255 ==
    /\ (cue.last.cmd = "TRACK" /\ cue.pc = "lines" /\ cue.last.prev < 255) =>
           cue.last.n = cue.last.prev + 1
    /\ ( /\ cue.last.cmd = "TRACK"
         /\ cue.pc = "done"
         /\ cue.current_bin_file # None
         /\ cue.last.n <= 255
         /\ cue.last.prev < 255
         /\ cue.last.n # cue.last.prev + 1 ) => ret.res = "InvalidTrackNumber"
    /\ (cue.pc = "done" /\ ret.res = "Ok" /\ TracksBefore(Len(bin_files)) <= 255) =>
           TracksBefore(Len(bin_files)) = cue.current_track_number


(***************************************************************************)
(* C23: the cue parser rejects out-of-order structure with the specified   *)
(* error: a TRACK line before any FILE line fails with                     *)
(* TrackCommandWithoutBinFile; an INDEX line when no TRACK line was        *)
(* accepted since the most recent FILE line fails with                     *)
(* IndexCommandWithoutTrack; the end of an input without any FILE line     *)
(* fails with NoBinFiles; a FILE line or the end of the input that follows *)
(* a FILE line with no TRACK line in between fails with NoTracks.          *)
(***************************************************************************)
C23_OutOfOrderStructureIsRejected ==
    [][ (backend = "parse" /\ cue'.lines_read = cue.lines_read + 1) =>
          /\ (cue'.last.cmd = "TRACK" /\ cue.files_seen = 0) =>
                 cue'.pc = "done" /\ ret'.res = "TrackCommandWithoutBinFile"
          /\ (cue'.last.cmd = "INDEX" /\ cue.tracks_since_file = 0) =>
                 cue'.pc = "done" /\ ret'.res = "IndexCommandWithoutTrack"
          /\ (cue'.last.cmd = "end" /\ cue.files_seen = 0) =>
                 cue'.pc = "done" /\ ret'.res = "NoBinFiles"
          /\ ( /\ cue'.last.cmd \in {"FILE", "end"}
               /\ cue.files_seen > 0
               /\ cue.tracks_since_file = 0 ) =>
                 cue'.pc = "done" /\ ret'.res = "NoTracks" ]_vars

(* A second FILE line right after the first has failed with NoTracks *)
C23_Witness ==
    /\ backend = "parse"
    /\ cue.pc = "done"
    /\ cue.last.cmd = "FILE"
    /\ cue.files_seen = 1
    /\ cue.tracks_since_file = 0
    /\ ret.res = "NoTracks"


(***************************************************************************)
(* C24: for every sequence of cue lines Cuesheet::open returns a Cuesheet  *)
(* or a CueError: it never panics and no unsigned subtraction wraps, also  *)
(* when the only or last track of a bin file has no INDEX line, when the   *)
(* first index values of consecutive tracks decrease, and when the first   *)
(* index of the last track lies beyond the end of the bin file.            *)
(***************************************************************************)
C24_Original ==
    backend = "parse" => (ret.res # "panic" /\ ~cue.wrapped)


(***************************************************************************)
(* C25: load_sbi_file skips 10 payload bytes after a record header whose   *)
(* mode byte is 1, skips 3 payload bytes when the mode byte is 2 or 3, and *)
(* fails with InvalidMode for every other mode byte value (0 and 4..=255). *)
(* Stated for the first record of a file with the magic: when its address  *)
(* is valid BCD and its mode byte is none of 1, 2, 3, the load fails with  *)
(* InvalidMode; when its mode byte is 1 and the file ends with a second    *)
(* record header 10 bytes later (or 3 bytes later for mode 2 or 3), the    *)
(* address of that header is in the result.                                *)
(***************************************************************************)
SbiLoaded == backend = "sbi" /\ ret.op = "load_sbi_file"

SbiHasRecordAt(index) ==
    /\ Len(cue) >= index + 4
    /\ SubSeq(cue, 1, 4) = <<83, 66, 73, 0>>
    /\ FromBcdValues(cue[index + 1], cue[index + 2], cue[index + 3]) # None

SbiLbaAt(index) ==
    MsfToLba(FromBcdValues(cue[index + 1], cue[index + 2], cue[index + 3])[1])

C25_Original ==
    (SbiLoaded /\ SbiHasRecordAt(4)) =>
        LET mode == cue[8]
            payload == IF mode = 1 THEN 10 ELSE 3
        IN  /\ mode \notin {1, 2, 3} => ret.res = "InvalidMode"
            /\ ( /\ mode \in {1, 2, 3}
                 /\ Len(cue) = 4 + 4 + payload + 4
                 /\ SbiHasRecordAt(4 + 4 + payload)
                 /\ cue[4 + 4 + payload + 4] \in {1, 2, 3} ) =>
                   /\ ret.res = "Ok"
                   /\ ret.val = Some({SbiLbaAt(4), SbiLbaAt(4 + 4 + payload)})


(***************************************************************************)
(* C26: for a file that starts with the magic "SBI\0" and contains only    *)
(* valid records, load_sbi_file returns exactly the set of the LBAs of the *)
(* BCD addresses of the records reached by walking from offset 4 with the  *)
(* record length of each mode; a trailing fragment shorter than a 4-byte   *)
(* record header is ignored; a file shorter than 4 bytes or with another   *)
(* magic fails with NotAnSbiFile.                                          *)
(***************************************************************************)
RECURSIVE SbiRecordsFrom(_)
SbiRecordsFrom(index) ==
    IF index + 4 > Len(cue) THEN {}
    ELSE {index} \cup SbiRecordsFrom(index + 4 + (IF cue[index + 4] = 1 THEN 10 ELSE 3))

C26_LoadReturnsTheRecordLbas ==
    SbiLoaded =>
        IF Len(cue) < 4 \/ SubSeq(cue, 1, 4) # <<83, 66, 73, 0>>
        THEN ret.res = "NotAnSbiFile"
        ELSE (\A o \in SbiRecordsFrom(4) : SbiHasRecordAt(o) /\ cue[o + 4] \in {1, 2, 3}) =>
                 /\ ret.res = "Ok"
                 /\ ret.val = Some({SbiLbaAt(o) : o \in SbiRecordsFrom(4)})

(* A record of mode 1 followed by a fragment of 3 bytes *)
C26_Witness ==
    /\ SbiLoaded
    /\ cue = <<83, 66, 73, 0>> \o <<0, 2, 0, 1, 1, 1, 1, 1, 1, 1, 1, 1, 1, 1>>
                 \o <<18, 52, 86>>
    /\ ret.res = "Ok"
    /\ ret.val = Some({150})


(***************************************************************************)
(* C27: open_with_parents_recursively terminates for every candidate list, *)
(* also when the headers reference each other cyclically or a file names   *)
(* itself as parent: it fails with RecursionDepthExceeded once the chain   *)
(* reaches depth 10, fails with ParentNotFound when no candidate's header  *)
(* SHA-1 equals the required parent SHA-1 (candidates with an unreadable   *)
(* header or without SHA-1 are skipped), and otherwise recurses into the   *)
(* first matching candidate in list order.                                 *)
(***************************************************************************)
MatchingCandidates(path) ==
    {i \in 1..Len(cue.possible_parents) :
        /\ cue.files[cue.possible_parents[i]].sha1 \in {"a", "b"}
        /\ cue.files[cue.possible_parents[i]].sha1 = cue.files[path].parent_sha1}

ParentsReturned == backend = "parents" /\ cue.pc = "done"

C27_ParentResolutionTerminates ==
    /\ [](backend = "parents" =>
            /\ cue.depth <= 10
            /\ Len(cue.chain) = cue.depth + 1
            /\ \A k \in 1..cue.depth :
                  /\ MatchingCandidates(cue.chain[k]) # {}
                  /\ \E i \in MatchingCandidates(cue.chain[k]) :
                        /\ cue.chain[k + 1] = cue.possible_parents[i]
                        /\ \A j \in MatchingCandidates(cue.chain[k]) : i <= j
            /\ ParentsReturned =>
                  /\ (cue.depth = 10) <=> (ret.res = "RecursionDepthExceeded")
                  /\ (ret.res = "ParentNotFound") <=>
                        ( /\ cue.depth < 10
                          /\ cue.files[cue.path].parent_sha1 \in {"a", "b"}
                          /\ MatchingCandidates(cue.path) = {} ))
    /\ <>(backend = "parents" => cue.pc = "done")

(* A file that names itself as parent has run into the depth limit *)
C27_Witness ==
    /\ ParentsReturned
    /\ cue.files[1].sha1 = cue.files[1].parent_sha1
    /\ cue.possible_parents = <<1>>
    /\ cue.depth = 10
    /\ ret.res = "RecursionDepthExceeded"


(***************************************************************************)
(* C28: while the ChdImage is alive and the threads are scheduled fairly,  *)
(* the main thread and the worker are never blocked on each other: every   *)
(* posted ReadHunk eventually has its completion in the completion         *)
(* channel, every blocking send on the full command channel and every      *)
(* recv_completion eventually proceeds, and the worker never stays blocked *)
(* on the completion channel.                                              *)
(***************************************************************************)
MainBlocked ==
    \/ mpc = "read_hunk_send" /\ Len(cmd_chan) >= NUM_CMD_SLOTS
    \/ mpc \in {"copy_recv", "read_hunk_drain"} /\ completion_chan = << >>

WorkerBlocked ==
    \/ wpc = "idle" /\ cmd_while_prefetching = None /\ cmd_chan = << >>
    \/ wpc = "send" /\ Len(completion_chan) >= COMPLETION_SLOTS

C28_ThreadsNeverBlockEachOther ==
    /\ [](~(MainBlocked /\ WorkerBlocked))
    /\ (outstanding # << >>) ~> (completion_chan # << >>)
    /\ (mpc = "read_hunk_send") ~> (mpc # "read_hunk_send")
    /\ (mpc \in {"copy_recv", "read_hunk_drain"}) ~> (mpc \notin {"copy_recv", "read_hunk_drain"})
    /\ (wpc = "send") ~> (wpc # "send")

(* The main thread waits to post a ReadHunk while the command channel is   *)
(* full                                                                    *)
C28_Witness ==
    /\ mpc = "read_hunk_send"
    /\ Len(cmd_chan) = NUM_CMD_SLOTS


(***************************************************************************)
(* C29: every command the worker takes from the command channel, by the    *)
(* blocking recv or by try_recv in a readahead or prefetch loop, is        *)
(* handled exactly once and in the order it was posted: the worker takes   *)
(* the oldest command of the channel, and only while no command is         *)
(* deferred; the command taken is handled at once or becomes the deferred  *)
(* command; a deferred command stays as it is until the worker handles it; *)
(* and the worker starts handling nothing but the command it has just      *)
(* received or the deferred command.                                       *)
(***************************************************************************)
C29_CommandsHandledOnceInOrder ==
    [][ /\ (cmd_chan # << >> /\ cmd_chan' # cmd_chan /\ Len(cmd_chan') < Len(cmd_chan)) =>
              /\ cmd_chan' = Tail(cmd_chan)
              /\ cmd_while_prefetching = None
              /\ \/ wpc = "idle" /\ wcmd' = Head(cmd_chan) /\ cmd_while_prefetching' = None
                 \/ /\ wpc = "poll" /\ wpc' = "idle"
                    /\ cmd_while_prefetching' = Some(Head(cmd_chan))
        /\ cmd_while_prefetching # None =>
              \/ cmd_while_prefetching' = cmd_while_prefetching /\ wcmd' = wcmd
              \/ /\ wpc = "idle"
                 /\ cmd_while_prefetching' = None
                 /\ wcmd' = cmd_while_prefetching[1]
                 /\ cmd_chan' = cmd_chan
        /\ (wcmd' # wcmd /\ wcmd' # NoCmd) =>
              /\ wpc = "idle"
              /\ \/ cmd_while_prefetching # None /\ wcmd' = cmd_while_prefetching[1]
                 \/ /\ cmd_while_prefetching = None /\ cmd_chan # << >>
                    /\ wcmd' = Head(cmd_chan) ]_vars

(* A ReadHunk taken by try_recv during a prefetch loop is the deferred     *)
(* command while another command waits in the channel                      *)
C29_Witness ==
    /\ cmd_while_prefetching # None
    /\ cmd_while_prefetching[1].kind = "ReadHunk"
    /\ cmd_chan # << >>
    /\ wpc = "idle"


(***************************************************************************)
(* C30: after handling ReadHunk(h) the worker does no readahead when       *)
(* h + 2 >= num_hunks or when hunks h+1 and h+2 are both in the cache;     *)
(* otherwise it brings hunks h+1 .. h+7 into the cache in increasing order *)
(* (leaving out those already cached or >= num_hunks, ignoring codec       *)
(* errors), stopping early only when a new command arrives.  A             *)
(* PrefetchHunk(h) does the same for hunks h .. h+7 without the low-water  *)
(* test.  As a property of the worker's steps, with wcmd.hunk_no + wi the  *)
(* hunk of the iteration:                                                  *)
(***************************************************************************)
InReadaheadLoop ==
    /\ wpc \in {"poll", "check", "put"}
    /\ wcmd.kind = "PrefetchHunk" \/ wi >= 1

C30_ReadaheadWindow ==
    [][ LET h == wcmd.hunk_no
            again == wpc' = "poll" /\ wi' = wi + 1 /\ wcmd' = wcmd
            over == wpc' = "idle" /\ wi = NUM_HUNKS_READAHEAD - 1
            next == again \/ over
        IN  /\ (wpc = "low_water" /\ wpc' # "low_water") =>
                  IF \/ h + 2 >= num_hunks
                     \/ CacheContains(hunk_cache, h + 1) /\ CacheContains(hunk_cache, h + 2)
                  THEN wpc' = "idle"
                  ELSE wpc' = "poll" /\ wi' = 1 /\ wcmd' = wcmd
            /\ (wpc = "idle" /\ wpc' # "idle" /\ wcmd'.kind = "PrefetchHunk") =>
                  wpc' = "poll" /\ wi' = 0
            /\ (InReadaheadLoop /\ wpc = "poll" /\ wpc' # "poll") =>
                  IF cmd_chan # << >>
                  THEN wpc' = "idle" /\ cmd_while_prefetching' = Some(Head(cmd_chan))
                  ELSE IF h + wi >= num_hunks
                  THEN over /\ hunk_cache' = hunk_cache
                  ELSE wpc' = "check" /\ wi' = wi
            /\ (InReadaheadLoop /\ wpc = "poll" /\ wpc' = "poll" /\ wi' # wi) =>
                  cmd_chan = << >> /\ h + wi >= num_hunks /\ again
            /\ (InReadaheadLoop /\ wpc = "check" /\ wpc' # "check") =>
                  IF CacheContains(hunk_cache, h + wi)
                  THEN next
                  ELSE wpc' = "put" /\ wi' = wi
            /\ (InReadaheadLoop /\ wpc = "put" /\ (wpc' # "put" \/ wi' # wi)) =>
                  /\ next
                  /\ \/ CacheContains(hunk_cache', h + wi)
                     \/ codec_errors' = codec_errors + 1 ]_vars

(* The readahead after ReadHunk(0) has brought in hunk 1 and is about to   *)
(* insert hunk 2                                                           *)
C30_Witness ==
    /\ wcmd = ReadHunkCmd(0)
    /\ wi = 2
    /\ wpc = "put"
    /\ burst_inserts = 1



(***************************************************************************)
(* C31: a command placed in the command channel while the worker is inside *)
(* a readahead or prefetch loop is taken up after at most one further      *)
(* readahead decompression.  A decompression of the loop (wpc = "put") is  *)
(* entered only from the cache lookup of the same iteration, that lookup   *)
(* only from a try_recv that found the channel empty, and after it the     *)
(* worker is back at try_recv or has left the loop; a try_recv that finds  *)
(* a command takes the oldest one, defers it and leaves the loop without   *)
(* touching the cache; and the loop takes nothing from the channel except  *)
(* at try_recv.                                                            *)
(***************************************************************************)
C31_CommandTakenAfterOneDecompression ==
    [][ /\ (InReadaheadLoop /\ wpc = "poll" /\ cmd_chan # << >>
               /\ (wpc' # wpc \/ wi' # wi)) =>
              /\ wpc' = "idle"
              /\ cmd_while_prefetching' = Some(Head(cmd_chan))
              /\ cmd_chan' = Tail(cmd_chan)
              /\ hunk_cache' = hunk_cache
        /\ (wpc' = "put" /\ wpc # "put") =>
              wpc = "check" /\ wi' = wi /\ wcmd' = wcmd
        /\ (InReadaheadLoop' /\ wpc' = "check" /\ wpc # "check") =>
              wpc = "poll" /\ cmd_chan = << >> /\ wi' = wi /\ wcmd' = wcmd
        /\ (InReadaheadLoop /\ wpc = "put" /\ wpc' # "put") =>
              wpc' \in {"poll", "idle"}
        /\ (InReadaheadLoop /\ Len(cmd_chan') < Len(cmd_chan)) =>
              wpc = "poll" ]_vars

(* A command has arrived while the readahead after ReadHunk(0) is          *)
(* decompressing hunk 1                                                    *)
C31_Witness ==
    /\ wcmd = ReadHunkCmd(0)
    /\ wi = 1
    /\ wpc = "put"
    /\ cmd_chan # << >>



(* What C32 says of a state and of a step *)
PrefetchNeverBlocks ==
    backend = "chd" =>
        /\ (mpc = "read_hunk_prefetch") => ENABLED ReadHunkPrefetch
        /\ (mpc = "idle" /\ calls < MaxCalls) =>
               \A loc \in TargetMsfs : ENABLED AdvisePrefetch(loc)

PrefetchStep ==
    /\ (mpc = "idle" /\ ret'.op = "advise_prefetch" /\ calls' # calls) =>
          /\ mpc' = "idle"
          /\ UNCHANGED <<current_lba, current_track, current_hunk_no,
                         hunk_read_pending, hunk, completion_chan, outstanding>>
          /\ \/ cmd_chan' = cmd_chan
             \/ /\ Len(cmd_chan) < NUM_CMD_SLOTS
                /\ \E l \in TargetLbas :
                      /\ HunkNoForLba(current_track, l) # -1
                      /\ cmd_chan' = Append(cmd_chan,
                             PrefetchHunkCmd(HunkNoForLba(current_track, l)))
    /\ (mpc = "read_hunk_prefetch" /\ mpc' # mpc) =>
          /\ UNCHANGED <<current_lba, current_track, hunk_read_pending, hunk,
                         completion_chan, outstanding>>
          /\ cmd_chan' = IF Len(cmd_chan) < NUM_CMD_SLOTS
                         THEN Append(cmd_chan, PrefetchHunkCmd(mctx.hunk_no))
                         ELSE cmd_chan
    /\ (Len(completion_chan') > Len(completion_chan)) =>
          /\ wcmd.kind = "ReadHunk" /\ wi = 0
          /\ completion_chan' = Append(completion_chan, wres)
          /\ wres.hunk_no = wcmd.hunk_no

----------------------------------------------------------------------------
(* C33: BinFile::finalize_tracks                                           *)

(* Track i of bin file b has the length the claim gives it *)
TrackLengthIsDistance(b, i) ==
    LET ts == bin_files[b].tracks
    IN  ts[i].num_sectors =
            IF i < Len(ts) THEN FirstIndexLba(ts[i + 1]) - FirstIndexLba(ts[i])
            ELSE bin_files[b].sectors - FirstIndexLba(ts[i])

(* C33 as claimed: in a bin file finalized successfully every track has    *)
(* starting_lba equal to the bin-local LBA of its first index (INDEX 00 if *)
(* present, else INDEX 01), every track but the last has num_sectors equal *)
(* to the distance to the next track's first index and the last track has  *)
(* num_sectors = bin_sector_count - its first index, so that the tracks    *)
(* tile the sectors from the first track's first index to the end of the   *)
(* bin file.                                                               *)
C33_Original ==
    backend = "cue" =>
        \A b \in 1..Len(bin_files) :
            LET ts == bin_files[b].tracks
            IN  \A i \in 1..Len(ts) :
                    /\ ts[i].starting_lba = FirstIndexLba(ts[i])
                    /\ TrackLengthIsDistance(b, i)
                    /\ ts[i].starting_lba + ts[i].num_sectors =
                           IF i < Len(ts) THEN ts[i + 1].starting_lba
                           ELSE bin_files[b].sectors

(* What finalize_tracks stores: the lengths are as claimed, and            *)
(* starting_lba is the distance from the first index of the bin file's     *)
(* first track                                                             *)
C33_StartingLbaFromFirstTrack ==
    backend = "cue" =>
        \A b \in 1..Len(bin_files) :
            LET ts == bin_files[b].tracks
            IN  \A i \in 1..Len(ts) :
                    /\ ts[i].starting_lba = FirstIndexLba(ts[i]) - FirstIndexLba(ts[1])
                    /\ TrackLengthIsDistance(b, i)



----------------------------------------------------------------------------
(* C34: the padding of CHD tracks                                          *)

(* (4 - frames mod 4) mod 4, summed over the first n tracks of the file *)
RECURSIVE PaddingBefore(_)
PaddingBefore(n) ==
    IF n = 0 THEN 0
    ELSE PaddingBefore(n - 1)
         + ((PAD_ALIGN - (disc.chd_tracks[n].frames % PAD_ALIGN)) % PAD_ALIGN)

(* The disc LBAs inside tracks, with the track (counted from 0) of each *)
LbasInTracks ==
    {p \in (FIRST_TRACK_PREGAP..(FIRST_TRACK_PREGAP + MaxTracks * MaxFrames))
               \X (0..(Len(tracks) - 1)) : InTrack(tracks[p[2] + 1], p[1])}

(***************************************************************************)
(* C34: for every CHD track list, track k's padding_offset is the sum over *)
(* the preceding tracks j of (4 - frames_j mod 4) mod 4; the file-local    *)
(* LBA of the first sector of every track is a multiple of 4; distinct     *)
(* disc LBAs inside tracks map to distinct, increasing file-local LBAs;    *)
(* and hunk_no_for_lba, called for an LBA inside a track, returns that     *)
(* file-local LBA (a hunk being one sector).                               *)
(***************************************************************************)
C34_PaddingOffsetsAlignTracks ==
    backend = "tracks" =>
        /\ \A k \in 1..Len(tracks) :
              /\ tracks[k].padding_offset = PaddingBefore(k - 1)
              /\ HunkNoForLba(k - 1, tracks[k].start_lba) % PAD_ALIGN = 0
        /\ \A p, q \in LbasInTracks :
              p[1] < q[1] => HunkNoForLba(p[2], p[1]) < HunkNoForLba(q[2], q[1])
        /\ (ret.op = "hunk_no_for_lba" /\ ret.val # None) =>
              /\ ret.res = "Ok"
              /\ InTrack(tracks[current_track + 1], ret.arg[1])
              /\ ret.val[1] = ret.arg[1] - FIRST_TRACK_PREGAP
                                + PaddingBefore(current_track)

(* hunk_no_for_lba has been called for the first sector of the third of    *)
(* three tracks, the first two of which have 3 and 2 frames                *)
C34_Witness ==
    /\ backend = "tracks"
    /\ Len(tracks) = 3
    /\ tracks[1].frames = 3 /\ tracks[2].frames = 2
    /\ ret.op = "hunk_no_for_lba"
    /\ ret.arg = Some(tracks[3].start_lba)
    /\ current_track = 2
    /\ ret.val = Some(8)



----------------------------------------------------------------------------
(* C35: the getters after set_location_to_track                            *)

(* The last call was a set_location_to_track(n) that succeeded, for a      *)
(* track n of the disc                                                     *)
AtTrackSetByNumber ==
    /\ ret.op = "set_location_to_track" /\ ret.res = "Ok"
    /\ ret.arg[1] \in 1..NumTracks

(* C35 as claimed: in both backends, after set_location_to_track(n) has    *)
(* succeeded for a track n in 1..=num_tracks(), current_track() is n, and  *)
(* a current_index() called next returns 1 and a                           *)
(* current_track_local_msf() called next returns 00:00:00.                 *)
C35_Original ==
    [][ AtTrackSetByNumber =>
          /\ CurrentTrackNo = ret.arg[1]
          /\ (ret'.op = "current_index") => (ret'.res = "Ok" /\ ret'.val = Some(1))
          /\ (ret'.op = "current_track_local_msf") =>
                 (ret'.res = "Ok" /\ ret'.val = Some(<<0, 0, 0>>)) ]_vars



----------------------------------------------------------------------------
(* C36 as claimed: for every LBA l such that set_location accepts both l   *)
(* and l + 1, the Cuesheet Location (bin_file_no, track_in_bin,            *)
(* global_lba, bin_local_lba) reached by set_location(l) followed by       *)
(* advance_position() is the Location that set_location(l + 1) gives; this *)
(* covers track boundaries, bin-file boundaries, the step from LBA 149 to  *)
(* 150 and tracks of zero length.                                          *)
C36_Original ==
    [][ (backend = "cue" /\ ret.op = "set_location" /\ ret.res = "Ok"
           /\ ret'.op = "advance_position"
           /\ CueLocate(ret.arg[1] + 1) # None)
        => location' = CueLocate(ret.arg[1] + 1)[1] ]_vars



----------------------------------------------------------------------------
(* C37 as claimed: in both backends a set_location call that returns       *)
(* OutOfRange leaves the position as it was before the call:               *)
(* current_global_msf() (the MSF of the current LBA), current_track() and  *)
(* what copy_current_sector reads from (the Location of a Cuesheet; the    *)
(* current hunk number and the hunk buffer of a ChdImage) are unchanged.   *)
C37_Original ==
    [][ (ret'.op = "set_location" /\ ret'.res = "OutOfRange")
        => /\ CurrentLba' = CurrentLba
           /\ CurrentTrackNo' = CurrentTrackNo
           /\ location' = location
           /\ current_hunk_no' = current_hunk_no
           /\ hunk' = hunk ]_vars



----------------------------------------------------------------------------
(* C38: the getters at every reachable position                            *)

(* The track and bin-file indices of the position exist, and the unsigned  *)
(* subtractions of Cuesheet::current_track_local_msf do not wrap           *)
GettersInBounds ==
    IF backend = "chd"
    THEN current_track \in 0..(Len(tracks) - 1)
    ELSE /\ location.bin_file_no \in 0..(Len(bin_files) - 1)
         /\ location.track_in_bin
               \in 0..(Len(bin_files[location.bin_file_no + 1].tracks) - 1)
         /\ LET track == bin_files[location.bin_file_no + 1].tracks[location.track_in_bin + 1]
            IN  /\ track.index1 >= track.starting_lba
                /\ location.bin_local_lba >= track.starting_lba

(* C38 as claimed: at every position reachable by set_location,            *)
(* set_location_to_track and advance_position (LBA < 150, INDEX 00         *)
(* regions, positions after EndOfDisc or after a failed set_location       *)
(* included) the getters index no track or bin file out of bounds, no      *)
(* unsigned subtraction of theirs underflows, and current_track() is in    *)
(* 1..=num_tracks(), in both backends.                                     *)
C38_Original ==
    (backend \in {"chd", "cue"}) =>
        /\ GettersInBounds
        /\ CurrentTrackNo \in 1..NumTracks
        /\ (ret.op \in {"current_index", "current_track_local_msf"}) => ret.res # "panic"



----------------------------------------------------------------------------
(* C39 as claimed: for every valid MsfIndex x of msf_index.rs,             *)
(* MsfIndex::from_sectors(x.to_sectors()) == Ok(x).                        *)
C39_Original ==
    ret.op = "from_sectors(to_sectors)" => (ret.res = "Ok" /\ ret.val = ret.arg)

(* The round trip returns x exactly for the x of less than 60 sectors *)
C39_RoundTripBelowSixtySectors ==
    ret.op = "from_sectors(to_sectors)"
    => ((ret.res = "Ok" /\ ret.val = ret.arg) <=> ret.arg[1][2] * 75 + ret.arg[1][3] < 60)



----------------------------------------------------------------------------
(* C40: get_next_sector of the lib.rs Cuesheet                             *)

(* The sector is the last one of a track of its bin file *)
LastSectorOfATrack(sector) ==
    \E i \in 1..Len(bin_files[sector.bin_file_no + 1].tracks) :
        LET t == bin_files[sector.bin_file_no + 1].tracks[i]
        IN  t.num_sectors > 0
            /\ sector.bin_local_lba = FirstIndexLba(t) + t.num_sectors - 1

(* C40 as claimed: after any sequence of set_location,                     *)
(* set_location_to_track and get_next_sector calls (a start inside the     *)
(* first track's virtual pregap and reading through the last sector of the *)
(* disc included) the assertion sectors_left > 0 of get_next_sector never  *)
(* fails, and a sector of the bin files is returned with TrackChange       *)
(* exactly when it is the last sector of a track; a pregap sector is       *)
(* returned without an event.                                              *)
C40_Original ==
    (backend = "lib" /\ ret.op = "get_next_sector") =>
        /\ ret.res # "panic"
        /\ (ret.res = "Ok" /\ ret.val[1].sector = ZeroSector) => ret.val[1].event = "None"
        /\ (ret.res = "Ok" /\ ret.val[1].sector # ZeroSector) =>
              (ret.val[1].event = "TrackChange" <=> LastSectorOfATrack(ret.val[1].sector))

====
